---- MODULE Spec2Model ----
(***************************************************************************)
(* A model of pearpass-lib-native-messaging-bridge:                        *)
(*   - nativeMessagingProtocol.js : wrapMessage / unwrapMessage /          *)
(*     isWrappedMessage                                                    *)
(*   - nativeMessagingHandler.js  : NativeMessagingHandler (framing)       *)
(*   - the NativeMessagingHost (index) : connectToIPC and the dispatcher   *)
(*                                                                         *)
(* Text is a sequence of UTF-16 code units (integers), a Buffer is a       *)
(* sequence of bytes (integers 0..255).  JavaScript values are records of  *)
(* one shape, [t, n, s, kv]: t is the type tag, n the number (or 0/1 for a *)
(* boolean), s the code units of a string, kv the properties of an object  *)
(* (in insertion order) or the elements of an array (with empty keys).     *)
(*                                                                         *)
(* Limits of the alphabet the model is driven with: no surrogate code      *)
(* units, no 3- or 4-byte UTF-8 sequences, integer numbers only, no        *)
(* integer-like object keys.                                               *)
(***************************************************************************)
EXTENDS Integers, Sequences, FiniteSets, TLC

(***************************************************************************)
(* Bounds of the model.                                                    *)
(***************************************************************************)
MaxStrLen == 2
MaxNum == 11
MaxDelta == 2
MaxFrames == 2
MaxOver == 2
MaxClients == 3
MaxRequests == 1
MaxBridgeFrames == 2
MaxStreamFrames == 2

(***************************************************************************)
(* Evaluation.  Once(e, Op) is Op(e) with e computed a single time: the   *)
(* operators that fold over a whole buffer bind what they computed as a    *)
(* value before they use it more than once.                                *)
(***************************************************************************)
Once(e, Op(_)) == CHOOSE r \in {Op(v) : v \in {e}} : TRUE

(***************************************************************************)
(* Characters.                                                             *)
(***************************************************************************)
CH == [LBRACE |-> 123, RBRACE |-> 125, LBRACKET |-> 91, RBRACKET |-> 93,
       QUOTE |-> 34, BSLASH |-> 92, COLON |-> 58, COMMA |-> 44,
       MINUS |-> 45, SLASH |-> 47, ZERO |-> 48, NINE |-> 57,
       SPACE |-> 32, TAB |-> 9, LF |-> 10, CR |-> 13, BS |-> 8, FF |-> 12,
       DOT |-> 46, PLUS |-> 43,
       a |-> 97, b |-> 98, e |-> 101, f |-> 102, n |-> 110, r |-> 114,
       t |-> 116, u |-> 117, E |-> 69, EACUTE |-> 233, REPLACEMENT |-> 65533]

TxtNull == <<110, 117, 108, 108>>
TxtTrue == <<116, 114, 117, 101>>
TxtFalse == <<102, 97, 108, 115, 101>>
TxtLength == <<108, 101, 110, 103, 116, 104>>
TxtMessage == <<109, 101, 115, 115, 97, 103, 101>>

\* the code units of a string literal of the source
Lower == "abcdefghijklmnopqrstuvwxyz"
Upper == "ABCDEFGHIJKLMNOPQRSTUVWXYZ"
Digits == "0123456789"
PosIn(str, c) ==
  IF \E i \in 1..Len(str) : SubSeq(str, i, i) = c
    THEN CHOOSE i \in 1..Len(str) : SubSeq(str, i, i) = c
    ELSE 0
CodeOf(c) ==
  IF PosIn(Lower, c) > 0 THEN CH.a - 1 + PosIn(Lower, c)
  ELSE IF PosIn(Upper, c) > 0 THEN CH.E - 5 + PosIn(Upper, c)
  ELSE IF PosIn(Digits, c) > 0 THEN CH.ZERO - 1 + PosIn(Digits, c)
  ELSE CASE c = " " -> CH.SPACE [] c = "'" -> 39 [] c = "(" -> 40
         [] c = ")" -> 41 [] c = "-" -> CH.MINUS [] c = "." -> CH.DOT
         [] c = "/" -> CH.SLASH [] c = ":" -> CH.COLON [] c = ">" -> 62
TextOf(str) == [i \in 1..Len(str) |-> CodeOf(SubSeq(str, i, i))]

(***************************************************************************)
(* JavaScript values.                                                      *)
(***************************************************************************)
JNull == [t |-> "null", n |-> 0, s |-> <<>>, kv |-> <<>>]
JUndefined == [t |-> "undefined", n |-> 0, s |-> <<>>, kv |-> <<>>]
JBool(b) == [t |-> "boolean", n |-> IF b THEN 1 ELSE 0, s |-> <<>>, kv |-> <<>>]
JNum(i) == [t |-> "number", n |-> i, s |-> <<>>, kv |-> <<>>]
JStr(str) == [t |-> "string", n |-> 0, s |-> str, kv |-> <<>>]
JArr(items) ==
  [t |-> "array", n |-> 0, s |-> <<>>,
   kv |-> [i \in 1..Len(items) |-> [k |-> <<>>, v |-> items[i]]]]
JObj(props) == [t |-> "object", n |-> 0, s |-> <<>>, kv |-> props]
Prop(key, val) == [k |-> key, v |-> val]

\* typeof v
TypeOf(v) ==
  IF v.t \in {"null", "array", "object"} THEN "object" ELSE v.t

\* !!v
Truthy(v) ==
  CASE v.t \in {"null", "undefined"} -> FALSE
    [] v.t = "boolean" -> v.n = 1
    [] v.t = "number" -> v.n # 0
    [] v.t = "string" -> v.s # <<>>
    [] OTHER -> TRUE

\* Object.keys(v) of an object or an array (the indices of an array)
ObjectKeys(v) ==
  IF v.t \in {"object", "array"} THEN [i \in 1..Len(v.kv) |-> v.kv[i].k] ELSE <<>>

\* key in v, for an object or an array; every array has the property length
HasProperty(v, key) ==
  \/ v.t = "object" /\ \E i \in 1..Len(v.kv) : v.kv[i].k = key
  \/ v.t = "array" /\ key = TxtLength

\* v[key]: the property's value, undefined when absent
GetProperty(v, key) ==
  IF v.t = "object" /\ \E i \in 1..Len(v.kv) : v.kv[i].k = key
    THEN v.kv[CHOOSE i \in 1..Len(v.kv) : v.kv[i].k = key].v
    ELSE IF v.t = "array" /\ key = TxtLength THEN JNum(Len(v.kv))
    ELSE JUndefined

\* v[key] = val on an object: an existing key keeps its place
SetProperty(v, key, val) ==
  IF \E i \in 1..Len(v.kv) : v.kv[i].k = key
    THEN [v EXCEPT !.kv =
           [i \in 1..Len(v.kv) |->
              IF v.kv[i].k = key THEN Prop(key, val) ELSE v.kv[i]]]
    ELSE [v EXCEPT !.kv = Append(v.kv, Prop(key, val))]

(***************************************************************************)
(* JSON.stringify.                                                         *)
(***************************************************************************)
RECURSIVE NatDigits(_)
NatDigits(i) ==
  IF i < 10 THEN <<CH.ZERO + i>>
  ELSE NatDigits(i \div 10) \o <<CH.ZERO + (i % 10)>>

NumberText(i) == IF i < 0 THEN <<CH.MINUS>> \o NatDigits(-i) ELSE NatDigits(i)

HexDigit(d) == IF d < 10 THEN CH.ZERO + d ELSE CH.a + (d - 10)

\* the escape JSON.stringify writes for one code unit of a string
QuoteChar(c) ==
  CASE c = CH.QUOTE -> <<CH.BSLASH, CH.QUOTE>>
    [] c = CH.BSLASH -> <<CH.BSLASH, CH.BSLASH>>
    [] c = CH.BS -> <<CH.BSLASH, CH.b>>
    [] c = CH.TAB -> <<CH.BSLASH, CH.t>>
    [] c = CH.LF -> <<CH.BSLASH, CH.n>>
    [] c = CH.FF -> <<CH.BSLASH, CH.f>>
    [] c = CH.CR -> <<CH.BSLASH, CH.r>>
    [] c < 32 -> <<CH.BSLASH, CH.u, CH.ZERO, CH.ZERO,
                   HexDigit(c \div 16), HexDigit(c % 16)>>
    [] OTHER -> <<c>>

RECURSIVE QuoteRange(_, _, _)
\* the escapes of the code units lo..hi, by halving the range
QuoteRange(str, lo, hi) ==
  IF lo > hi THEN <<>>
  ELSE IF lo = hi THEN QuoteChar(str[lo])
  ELSE Once((lo + hi) \div 2, LAMBDA mid :
         QuoteRange(str, lo, mid) \o QuoteRange(str, mid + 1, hi))

\* a text whose code units are all written as themselves is its own result
QuoteChars(str) ==
  Once(str, LAMBDA text :
    IF \A i \in 1..Len(text) : QuoteChar(text[i]) = <<text[i]>> THEN text
    ELSE QuoteRange(text, 1, Len(text)))

QuoteString(str) == <<CH.QUOTE>> \o QuoteChars(str) \o <<CH.QUOTE>>

RECURSIVE Stringify(_), StringifyElements(_, _), StringifyMembers(_, _, _)
\* the elements of an array from index i: undefined is written as null
StringifyElements(kv, i) ==
  IF i > Len(kv) THEN <<>>
  ELSE (IF i > 1 THEN <<CH.COMMA>> ELSE <<>>)
       \o (IF kv[i].v.t = "undefined" THEN TxtNull ELSE Stringify(kv[i].v))
       \o StringifyElements(kv, i + 1)

\* the members of an object from index i: undefined members are left out
StringifyMembers(kv, i, first) ==
  IF i > Len(kv) THEN <<>>
  ELSE IF kv[i].v.t = "undefined" THEN StringifyMembers(kv, i + 1, first)
  ELSE (IF first THEN <<>> ELSE <<CH.COMMA>>)
       \o QuoteString(kv[i].k) \o <<CH.COLON>> \o Stringify(kv[i].v)
       \o StringifyMembers(kv, i + 1, FALSE)

Stringify(v) ==
  CASE v.t = "null" -> TxtNull
    [] v.t = "boolean" -> (IF v.n = 1 THEN TxtTrue ELSE TxtFalse)
    [] v.t = "number" -> NumberText(v.n)
    [] v.t = "string" -> QuoteString(v.s)
    [] v.t = "array" ->
         <<CH.LBRACKET>> \o StringifyElements(v.kv, 1) \o <<CH.RBRACKET>>
    [] v.t = "object" ->
         <<CH.LBRACE>> \o StringifyMembers(v.kv, 1, TRUE) \o <<CH.RBRACE>>

(***************************************************************************)
(* UTF-8.                                                                  *)
(***************************************************************************)
\* the bytes one code unit is encoded in
Utf8Bytes(c) ==
  IF c < 128 THEN <<c>>
  ELSE IF c < 2048 THEN <<192 + (c \div 64), 128 + (c % 64)>>
  ELSE <<224 + (c \div 4096), 128 + ((c \div 64) % 64), 128 + (c % 64)>>

RECURSIVE Utf8EncodeRange(_, _, _)
\* the bytes of the code units lo..hi, by halving the range
Utf8EncodeRange(str, lo, hi) ==
  IF lo > hi THEN <<>>
  ELSE IF lo = hi THEN Utf8Bytes(str[lo])
  ELSE Once((lo + hi) \div 2, LAMBDA mid :
         Utf8EncodeRange(str, lo, mid) \o Utf8EncodeRange(str, mid + 1, hi))

\* Buffer.from(str) / Buffer.from(str, 'utf8')
\* (a text of one-byte code units is its own encoding)
Utf8Encode(str) ==
  Once(str, LAMBDA text :
    IF \A i \in 1..Len(text) : Utf8Bytes(text[i]) = <<text[i]>> THEN text
    ELSE Utf8EncodeRange(text, 1, Len(text)))

\* Buffer.from(str).length
ByteLength(str) ==
  Len(str) + Cardinality({i \in 1..Len(str) : str[i] >= 128})
           + Cardinality({i \in 1..Len(str) : str[i] >= 2048})

IsLead2(byte) == byte >= 194 /\ byte <= 223
IsCont(byte) == byte >= 128 /\ byte <= 191

\* buf.toString('utf8'): a well-formed 2-byte sequence is one code unit, every
\* other byte above 127 is replaced by U+FFFD
Utf8Decode(buf) ==
  LET unit(i) ==
        IF i > 1 /\ IsCont(buf[i]) /\ IsLead2(buf[i - 1]) THEN -1
        ELSE IF buf[i] < 128 THEN buf[i]
        ELSE IF IsLead2(buf[i]) /\ i < Len(buf) /\ IsCont(buf[i + 1])
          THEN (buf[i] - 192) * 64 + (buf[i + 1] - 128)
        ELSE CH.REPLACEMENT
      marked == [i \in 1..Len(buf) |-> unit(i)]
      Kept(c) == c >= 0
  IN SelectSeq(marked, Kept)

(***************************************************************************)
(* JSON.parse, by recursive descent.  A result is [ok, v, p]: whether the  *)
(* text parsed, the value, and the position after it.  A failure stands    *)
(* for the SyntaxError JSON.parse throws.  A number with a fraction or an  *)
(* exponent is outside the integer model and is not in any input.          *)
(***************************************************************************)
ParseFail == [ok |-> FALSE, v |-> JNull, p |-> 0]
ParseOk(val, next) == [ok |-> TRUE, v |-> val, p |-> next]

IsWs(c) == c \in {CH.SPACE, CH.TAB, CH.LF, CH.CR}
IsDigit(c) == c >= CH.ZERO /\ c <= CH.NINE

RECURSIVE SkipWs(_, _)
SkipWs(str, p) ==
  IF p <= Len(str) /\ IsWs(str[p]) THEN SkipWs(str, p + 1) ELSE p

CharAt(str, p) == IF p >= 1 /\ p <= Len(str) THEN str[p] ELSE -1

MatchAt(str, p, lit) ==
  /\ p + Len(lit) - 1 <= Len(str)
  /\ SubSeq(str, p, p + Len(lit) - 1) = lit

HexVal(c) ==
  IF IsDigit(c) THEN c - CH.ZERO
  ELSE IF c >= 97 /\ c <= 102 THEN c - 87
  ELSE IF c >= 65 /\ c <= 70 THEN c - 55
  ELSE -1

\* the code unit an escape \e stands for, -1 when it is no simple escape
SimpleEscape(c) ==
  CASE c = CH.QUOTE -> CH.QUOTE
    [] c = CH.BSLASH -> CH.BSLASH
    [] c = CH.SLASH -> CH.SLASH
    [] c = CH.b -> CH.BS
    [] c = CH.f -> CH.FF
    [] c = CH.n -> CH.LF
    [] c = CH.r -> CH.CR
    [] c = CH.t -> CH.TAB
    [] OTHER -> -1

\* where the run of characters that stand for themselves, from position p,
\* ends: at the first quote, backslash or control character, or at the end
PlainRunEnd(str, p) ==
  LET stops == {q \in p..Len(str) :
                  str[q] = CH.QUOTE \/ str[q] = CH.BSLASH \/ str[q] < 32}
  IN IF stops = {} THEN Len(str) + 1
     ELSE CHOOSE q \in stops : \A x \in stops : q <= x

RECURSIVE ParseStringChars(_, _, _)
\* the characters of a string literal from position p (after the opening
\* quote) to its closing quote
ParseStringChars(str, p, acc) ==
  LET c == CharAt(str, p)
      e == CharAt(str, p + 1)
      run == PlainRunEnd(str, p)
  IN CASE run > p ->
            Once(acc \o SubSeq(str, p, run - 1), LAMBDA taken :
              ParseStringChars(str, run, taken))
       [] c = -1 -> ParseFail
       [] c = CH.QUOTE -> ParseOk(JStr(acc), p + 1)
       [] c >= 0 /\ c < 32 -> ParseFail
       [] c = CH.BSLASH ->
            IF e = CH.u
              THEN IF /\ p + 5 <= Len(str)
                      /\ \A i \in 2..5 : HexVal(str[p + i]) >= 0
                     THEN ParseStringChars(str, p + 6,
                            Append(acc, HexVal(str[p + 2]) * 4096
                                        + HexVal(str[p + 3]) * 256
                                        + HexVal(str[p + 4]) * 16
                                        + HexVal(str[p + 5])))
                     ELSE ParseFail
            ELSE IF e >= 0 /\ SimpleEscape(e) >= 0
              THEN ParseStringChars(str, p + 2, Append(acc, SimpleEscape(e)))
            ELSE ParseFail
       [] OTHER -> ParseStringChars(str, p + 1, Append(acc, c))

RECURSIVE ParseDigits(_, _, _)
ParseDigits(str, p, acc) ==
  IF IsDigit(CharAt(str, p))
    THEN ParseDigits(str, p + 1, acc * 10 + (str[p] - CH.ZERO))
    ELSE ParseOk(JNum(acc), p)

\* -? ( 0 | [1-9][0-9]* )
ParseNumber(str, p) ==
  LET neg == CharAt(str, p) = CH.MINUS
      q == IF neg THEN p + 1 ELSE p
      d == CharAt(str, q)
      r == IF d = CH.ZERO THEN ParseOk(JNum(0), q + 1)
           ELSE ParseDigits(str, q, 0)
  IN IF ~IsDigit(d) THEN ParseFail
     ELSE IF CharAt(str, r.p) \in {CH.DOT, CH.e, CH.E} THEN ParseFail
     ELSE IF neg THEN ParseOk(JNum(-r.v.n), r.p)
     ELSE r

RECURSIVE ParseValue(_, _), ParseMembers(_, _, _), ParseElements(_, _, _)
\* the members of an object from position p, where a key must start
ParseMembers(str, p, obj) ==
  IF CharAt(str, p) # CH.QUOTE THEN ParseFail
  ELSE
    LET key == ParseStringChars(str, p + 1, <<>>)
    IN IF ~key.ok THEN ParseFail
       ELSE
         LET q == SkipWs(str, key.p)
         IN IF CharAt(str, q) # CH.COLON THEN ParseFail
            ELSE
              LET val == ParseValue(str, SkipWs(str, q + 1))
              IN IF ~val.ok THEN ParseFail
                 ELSE
                   LET next == SkipWs(str, val.p)
                       grown == SetProperty(obj, key.v.s, val.v)
                   IN IF CharAt(str, next) = CH.COMMA
                        THEN ParseMembers(str, SkipWs(str, next + 1), grown)
                      ELSE IF CharAt(str, next) = CH.RBRACE
                        THEN ParseOk(grown, next + 1)
                      ELSE ParseFail

\* the elements of an array from position p, where a value must start
ParseElements(str, p, items) ==
  LET val == ParseValue(str, p)
  IN IF ~val.ok THEN ParseFail
     ELSE
       LET next == SkipWs(str, val.p)
           grown == Append(items, val.v)
       IN IF CharAt(str, next) = CH.COMMA
            THEN ParseElements(str, SkipWs(str, next + 1), grown)
          ELSE IF CharAt(str, next) = CH.RBRACKET
            THEN ParseOk(JArr(grown), next + 1)
          ELSE ParseFail

ParseValue(str, p) ==
  LET c == CharAt(str, p)
  IN CASE c = CH.LBRACE ->
            (LET q == SkipWs(str, p + 1)
             IN IF CharAt(str, q) = CH.RBRACE THEN ParseOk(JObj(<<>>), q + 1)
                ELSE ParseMembers(str, q, JObj(<<>>)))
       [] c = CH.LBRACKET ->
            (LET q == SkipWs(str, p + 1)
             IN IF CharAt(str, q) = CH.RBRACKET THEN ParseOk(JArr(<<>>), q + 1)
                ELSE ParseElements(str, q, <<>>))
       [] c = CH.QUOTE -> ParseStringChars(str, p + 1, <<>>)
       [] c = CH.MINUS \/ IsDigit(c) -> ParseNumber(str, p)
       [] c = CH.t /\ MatchAt(str, p, TxtTrue) -> ParseOk(JBool(TRUE), p + 4)
       [] c = CH.f /\ MatchAt(str, p, TxtFalse) -> ParseOk(JBool(FALSE), p + 5)
       [] c = CH.n /\ MatchAt(str, p, TxtNull) -> ParseOk(JNull, p + 4)
       [] OTHER -> ParseFail

\* JSON.parse(str)
JSONParse(str) ==
  LET r == ParseValue(str, SkipWs(str, 1))
  IN IF r.ok /\ SkipWs(str, r.p) = Len(str) + 1 THEN r ELSE ParseFail

(***************************************************************************)
(* nativeMessagingProtocol.js                                              *)
(***************************************************************************)
\* what a call leaves when it throws instead of returning
Thrown == [t |-> "thrown", n |-> 0, s |-> <<>>, kv |-> <<>>]

\* wrapMessage measuring the text in code units (originalJson.length) instead of
\* bytes
wrapMessage_CodeUnits(message) ==
  IF message.t = "undefined" THEN Thrown
  ELSE JObj(<<Prop(TxtLength, JNum(Len(Stringify(message)))),
              Prop(TxtMessage, message)>>)

\* Buffer.from(JSON.stringify(message)).length; JSON.stringify(undefined) is
\* undefined and Buffer.from(undefined) throws
wrapMessage(message) ==
  IF message.t = "undefined" THEN Thrown
  ELSE
    LET originalJson == Stringify(message)
        originalLength == ByteLength(originalJson)
    IN JObj(<<Prop(TxtLength, JNum(originalLength)), Prop(TxtMessage, message)>>)

\* isWrappedMessage without the count of the keys
isWrappedMessage_AnyKeyCount(message) ==
  /\ Truthy(message)
  /\ TypeOf(message) = "object"
  /\ HasProperty(message, TxtLength)
  /\ TypeOf(GetProperty(message, TxtLength)) = "number"
  /\ HasProperty(message, TxtMessage)

isWrappedMessage(message) ==
  /\ Truthy(message)
  /\ TypeOf(message) = "object"
  /\ Len(ObjectKeys(message)) = 2
  /\ HasProperty(message, TxtLength)
  /\ TypeOf(GetProperty(message, TxtLength)) = "number"
  /\ HasProperty(message, TxtMessage)

\* unwrapMessage rejecting only a message longer than declared (> for !==)
unwrapMessage_LongerOnly(wrapped) ==
  IF ~isWrappedMessage(wrapped) THEN JNull
  ELSE IF GetProperty(wrapped, TxtMessage).t = "undefined" THEN Thrown
  ELSE IF ByteLength(Stringify(GetProperty(wrapped, TxtMessage)))
            > GetProperty(wrapped, TxtLength).n THEN JNull
  ELSE GetProperty(wrapped, TxtMessage)

unwrapMessage(wrapped) ==
  IF ~isWrappedMessage(wrapped) THEN JNull
  ELSE IF GetProperty(wrapped, TxtMessage).t = "undefined" THEN Thrown
  ELSE
    LET messageJson == Stringify(GetProperty(wrapped, TxtMessage))
        actualLength == ByteLength(messageJson)
    IN IF actualLength # GetProperty(wrapped, TxtLength).n THEN JNull
       ELSE GetProperty(wrapped, TxtMessage)

(***************************************************************************)
(* nativeMessagingHandler.js.  A handler is the record of its fields, plus *)
(* what its listeners saw (events) and the strategy calls of the current   *)
(* handleIncomingChunk (calls).  A listener is registered for each event   *)
(* and does not throw.                                                     *)
(***************************************************************************)
MESSAGE_SIZE_LIMIT == 1048576
HEADER_SIZE == 4
ROBUST_BUFFER_LIMIT == 10000

ErrInvalidJson == "Invalid JSON message"
ErrUnwrap == "Failed to unwrap protocol message"

MessageEvent(payload) == [type |-> "message", payload |-> payload, error |-> ""]
ErrorEvent(text) == [type |-> "error", payload |-> JNull, error |-> text]

\* new NativeMessagingHandler()
NewHandler ==
  [inputBuffer |-> <<>>, messageInProgress |-> FALSE,
   expectedMessageLength |-> 0, accumulatedString |-> <<>>,
   useRobustParsing |-> TRUE, events |-> <<>>, calls |-> <<>>]

\* this.emit(...)
Emit(h, event) == [h EXCEPT !.events = Append(@, event)]

\* buf.slice(from)
SliceFrom(buf, from) == SubSeq(buf, from + 1, Len(buf))
\* buf.slice(from, to)
Slice(buf, from, to) ==
  SubSeq(buf, from + 1, IF to > Len(buf) THEN Len(buf) ELSE to)

\* the header read with the most significant byte first
ReadUInt32LE_BigEndian(buf) ==
  buf[4] + 256 * buf[3] + 65536 * buf[2] + 16777216 * buf[1]

\* buf.readUInt32LE(0)
ReadUInt32LE(buf) ==
  buf[1] + 256 * buf[2] + 65536 * buf[3] + 16777216 * buf[4]

\* the header written with the most significant byte first
WriteUInt32LE_BigEndian(len) ==
  <<(len \div 16777216) % 256, (len \div 65536) % 256, (len \div 256) % 256,
    len % 256>>

\* header.writeUInt32LE(len, 0)
WriteUInt32LE(len) ==
  <<len % 256, (len \div 256) % 256, (len \div 65536) % 256,
    (len \div 16777216) % 256>>

_resetMessageState(h) ==
  [h EXCEPT !.messageInProgress = FALSE, !.expectedMessageLength = 0]

\* a reset that drops the header only
_resetBuffer_HeaderOnly(h) ==
  _resetMessageState([h EXCEPT !.inputBuffer = SliceFrom(@, HEADER_SIZE)])

_resetBuffer(h) == _resetMessageState([h EXCEPT !.inputBuffer = <<>>])

\* the result of a call: the handler after it and what it returned
Ret(h, val) == [h |-> h, ret |-> val]

_readMessageLength(h) ==
  LET read == [h EXCEPT !.expectedMessageLength = ReadUInt32LE(h.inputBuffer),
                        !.messageInProgress = TRUE]
  IN IF read.expectedMessageLength > MESSAGE_SIZE_LIMIT
       THEN Ret(_resetBuffer(read), FALSE)
       ELSE Ret(read, TRUE)

_handleParsedMessage(h, message) ==
  IF isWrappedMessage(message)
    THEN LET unwrapped == unwrapMessage(message)
         IN IF Truthy(unwrapped)
              THEN Emit(h, MessageEvent(unwrapped))
              ELSE Emit(h, ErrorEvent(ErrUnwrap))
    ELSE Emit(h, MessageEvent(message))

\* a parse failure that emits nothing
_parseAndEmitMessage_Silent(h, messageBuffer) ==
  LET parsed == JSONParse(Utf8Decode(messageBuffer))
  IN IF parsed.ok
       THEN Ret(_handleParsedMessage(h, parsed.v), TRUE)
       ELSE Ret(h, FALSE)

_parseAndEmitMessage(h, messageBuffer) ==
  LET parsed == JSONParse(Utf8Decode(messageBuffer))
  IN IF parsed.ok
       THEN Ret(_handleParsedMessage(h, parsed.v), TRUE)
       ELSE Ret(Emit(h, ErrorEvent(ErrInvalidJson)), FALSE)

\* a call that reports progress when it has read a header and the frame is
\* not complete
_processStandardMessage_HeaderStep(h) ==
  IF Len(h.inputBuffer) < HEADER_SIZE THEN Ret(h, FALSE)
  ELSE
    LET read == IF ~h.messageInProgress THEN _readMessageLength(h)
                ELSE Ret(h, TRUE)
        g == read.h
        totalLength == HEADER_SIZE + g.expectedMessageLength
        messageBuffer == Slice(g.inputBuffer, HEADER_SIZE, totalLength)
        taken == _resetMessageState(
                   [g EXCEPT !.inputBuffer = SliceFrom(@, totalLength)])
    IN IF ~read.ret THEN Ret(g, FALSE)
       ELSE IF Len(g.inputBuffer) < totalLength
         THEN Ret(g, ~h.messageInProgress)
       ELSE _parseAndEmitMessage(taken, messageBuffer)

_processStandardMessage(h) ==
  IF Len(h.inputBuffer) < HEADER_SIZE THEN Ret(h, FALSE)
  ELSE
    LET read == IF ~h.messageInProgress THEN _readMessageLength(h)
                ELSE Ret(h, TRUE)
        g == read.h
        totalLength == HEADER_SIZE + g.expectedMessageLength
        messageBuffer == Slice(g.inputBuffer, HEADER_SIZE, totalLength)
        taken == _resetMessageState(
                   [g EXCEPT !.inputBuffer = SliceFrom(@, totalLength)])
    IN IF ~read.ret THEN Ret(g, FALSE)
       ELSE IF Len(g.inputBuffer) < totalLength THEN Ret(g, FALSE)
       ELSE _parseAndEmitMessage(taken, messageBuffer)

(***************************************************************************)
(* processNextMessageRobust.  Indices are JavaScript's (from 0); the       *)
(* character at index i is str[i + 1].  The loops over the text are folds, *)
(* computed by halving the range so that a long buffer needs no deep       *)
(* recursion.                                                              *)
(***************************************************************************)
RECURSIVE IndexOfIn(_, _, _, _)
\* the first index in lo..hi holding char, -1 when there is none
IndexOfIn(str, char, lo, hi) ==
  IF lo > hi THEN -1
  ELSE IF lo = hi THEN (IF str[lo + 1] = char THEN lo ELSE -1)
  ELSE Once((lo + hi) \div 2, LAMBDA mid :
         Once(IndexOfIn(str, char, lo, mid), LAMBDA left :
           IF left # -1 THEN left ELSE IndexOfIn(str, char, mid + 1, hi)))

\* str.indexOf(char, startIndex)
IndexOf(str, char, startIndex) ==
  IndexOfIn(str, char, startIndex, Len(str) - 1)

\* the locals of the brace-counting loop
ScanStart ==
  [braceCount |-> 0, inString |-> FALSE, escapeNext |-> FALSE, endIndex |-> -1]

\* the loop without escapeNext: a backslash is an ordinary character
ScanStep_NoEscape(st, char, i) ==
  IF st.endIndex # -1 THEN st
  ELSE IF char = CH.QUOTE THEN [st EXCEPT !.inString = ~@]
  ELSE IF st.inString THEN st
  ELSE IF char = CH.LBRACE THEN [st EXCEPT !.braceCount = @ + 1]
  ELSE IF char = CH.RBRACE
    THEN [st EXCEPT !.braceCount = @ - 1,
                    !.endIndex = IF st.braceCount - 1 = 0 THEN i + 1 ELSE -1]
  ELSE st

\* one iteration of the for loop, at index i
ScanStep(st, char, i) ==
  IF st.endIndex # -1 THEN st
  ELSE IF st.escapeNext THEN [st EXCEPT !.escapeNext = FALSE]
  ELSE IF char = CH.BSLASH THEN [st EXCEPT !.escapeNext = TRUE]
  ELSE IF char = CH.QUOTE THEN [st EXCEPT !.inString = ~@]
  ELSE IF st.inString THEN st
  ELSE IF char = CH.LBRACE THEN [st EXCEPT !.braceCount = @ + 1]
  ELSE IF char = CH.RBRACE
    THEN [st EXCEPT !.braceCount = @ - 1,
                    !.endIndex = IF st.braceCount - 1 = 0 THEN i + 1 ELSE -1]
  ELSE st

RECURSIVE ScanRange(_, _, _, _)
\* the iterations at the indices lo..hi, stopping at the break
ScanRange(st, str, lo, hi) ==
  IF lo > hi \/ st.endIndex # -1 THEN st
  ELSE IF lo = hi THEN ScanStep(st, str[lo + 1], lo)
  ELSE Once((lo + hi) \div 2, LAMBDA mid :
         Once(ScanRange(st, str, lo, mid), LAMBDA left :
           ScanRange(left, str, mid + 1, hi)))

\* a span that ends at the first closing brace, whatever the depth and
\* whether or not it is inside a string
FindEndIndex_FirstBrace(str, openBrace) ==
  Once(IndexOf(str, CH.RBRACE, openBrace), LAMBDA close :
    IF close = -1 THEN -1 ELSE close + 1)

\* endIndex after the for loop started at openBrace
FindEndIndex(str, openBrace) ==
  ScanRange(ScanStart, str, openBrace, Len(str) - 1).endIndex

RECURSIVE RobustSearch(_, _)
\* the while loop from startIndex: "found" with the span's end and the parsed
\* message, "incomplete" for the early return, "none" when the loop ends
RobustSearch(str, startIndex) ==
  LET none == [kind |-> "none", endIndex |-> -1, message |-> JNull]
  IN IF ~(startIndex < Len(str)) THEN none
     ELSE Once(IndexOf(str, CH.LBRACE, startIndex), LAMBDA openBrace :
       IF openBrace = -1 THEN none
       ELSE Once(FindEndIndex(str, openBrace), LAMBDA endIndex :
         IF endIndex = -1
           THEN [kind |-> "incomplete", endIndex |-> -1, message |-> JNull]
         ELSE Once(SubSeq(str, openBrace + 1, endIndex), LAMBDA jsonStr :
           Once(JSONParse(jsonStr), LAMBDA parsed :
             IF parsed.ok
               THEN [kind |-> "found", endIndex |-> endIndex,
                     message |-> parsed.v]
               ELSE RobustSearch(str, openBrace + 1)))))

\* the text scanned when the 4 header bytes are not skipped
dataAfterHeader_WithHeader(h) == Once(h.inputBuffer, Utf8Decode)

\* this.inputBuffer.slice(4).toString('utf8')
dataAfterHeader(h) == Once(SliceFrom(h.inputBuffer, 4), Utf8Decode)

\* the emission inside the try block repeats _handleParsedMessage
processNextMessageRobust(h) ==
  IF Len(h.inputBuffer) < 4 THEN Ret(h, FALSE)
  ELSE
    Once([h EXCEPT !.accumulatedString = dataAfterHeader(h)], LAMBDA g :
      Once(RobustSearch(g.accumulatedString, 0), LAMBDA found :
        LET bytesToRemove ==
              4 + Once(SubSeq(g.accumulatedString, 1, found.endIndex),
                       ByteLength)
            emitted == _handleParsedMessage(g, found.message)
        IN CASE found.kind = "incomplete" -> Ret(g, FALSE)
             [] found.kind = "found" ->
                  Ret([emitted EXCEPT
                         !.inputBuffer = SliceFrom(@, bytesToRemove)], TRUE)
             [] OTHER ->
                  IF Len(g.inputBuffer) > ROBUST_BUFFER_LIMIT
                    THEN Ret([g EXCEPT !.inputBuffer = <<>>,
                                       !.accumulatedString = <<>>], FALSE)
                    ELSE Ret(g, FALSE)))

\* one record of calls per strategy call: what it returned, the buffer
\* lengths around it, the header it read (-1: none read)
CallRecord(h, r) ==
  [robust |-> h.useRobustParsing, ret |-> r.ret,
   before |-> Len(h.inputBuffer), after |-> Len(r.h.inputBuffer),
   declared |-> IF ~h.useRobustParsing /\ ~h.messageInProgress
                   /\ Len(h.inputBuffer) >= HEADER_SIZE
                  THEN ReadUInt32LE(h.inputBuffer) ELSE -1,
   emitted |-> Len(r.h.events) - Len(h.events)]

processNextMessage(h) ==
  Once(IF h.useRobustParsing THEN processNextMessageRobust(h)
       ELSE _processStandardMessage(h),
       LAMBDA r : Ret([r.h EXCEPT !.calls = Append(@, CallRecord(h, r))],
                      r.ret))

\* one strategy call per chunk instead of the loop
Drain_Once(h) == processNextMessage(h).h

RECURSIVE Drain(_)
\* while (this.processNextMessage()) {}
Drain(h) ==
  Once(processNextMessage(h), LAMBDA r : IF r.ret THEN Drain(r.h) ELSE r.h)

handleIncomingChunk(h, chunk) ==
  Once([h EXCEPT !.inputBuffer = @ \o chunk, !.calls = <<>>], Drain)

\* a header that counts the code units of the serialized envelope
send_CodeUnitHeader(message) ==
  LET jsonStr == Stringify(wrapMessage(message))
  IN WriteUInt32LE(Len(jsonStr)) \o Utf8Encode(jsonStr)

\* the bytes send(message) writes: the header, then the serialized envelope
send(message) ==
  LET wrapped == wrapMessage(message)
      jsonBuffer == Utf8Encode(Stringify(wrapped))
  IN WriteUInt32LE(Len(jsonBuffer)) \o jsonBuffer

\* stop(): the buffer is dropped, the framing state is kept
stop(h) == [h EXCEPT !.inputBuffer = <<>>]

(***************************************************************************)
(* NativeMessagingHost.  A host is the record of its fields (isRunning,    *)
(* ipcClient, desktopAppStatus) plus what exists around it: the IPC        *)
(* clients it created (ipcClient is the index of one of them, 0 for null), *)
(* the activations of connectToIPC (attempts), the activations of          *)
(* handleMessage (requests) and the responses handed to handler.send       *)
(* (sent).  Error messages are strings.  new IPC.Client(...) and           *)
(* client.close() do not throw; a connection failure is reported by        *)
(* ready().                                                                *)
(***************************************************************************)
DESKTOP_APP_STATUS ==
  [CONNECTED |-> "connected", NOT_RUNNING |-> "not-running",
   INTEGRATION_DISABLED |-> "integration-disabled",
   CONNECTING |-> "connecting", UNKNOWN |-> "unknown"]

\* the table's entry, "" where it has none
STATUS_MESSAGES(status) ==
  CASE status = DESKTOP_APP_STATUS.NOT_RUNNING ->
         "PearPass desktop app is not running"
    [] status = DESKTOP_APP_STATUS.INTEGRATION_DISABLED ->
         "Browser extension integration is disabled in PearPass desktop app. Please enable it in Settings > Privacy"
    [] status = DESKTOP_APP_STATUS.CONNECTING ->
         "Connecting to PearPass desktop app..."
    [] status = DESKTOP_APP_STATUS.UNKNOWN ->
         "Unable to connect to PearPass desktop app"
    [] OTHER -> ""

\* STATUS_MESSAGES[status] || STATUS_MESSAGES[DESKTOP_APP_STATUS.UNKNOWN]
StatusMessageOrUnknown(status) ==
  IF STATUS_MESSAGES(status) # "" THEN STATUS_MESSAGES(status)
  ELSE STATUS_MESSAGES(DESKTOP_APP_STATUS.UNKNOWN)

COMMAND_NAMES ==
  {"encryptionInit", "encryptionGetStatus", "encryptionGet", "encryptionAdd",
   "vaultsInit", "vaultsGetStatus", "vaultsGet", "vaultsList", "vaultsAdd",
   "vaultsClose", "activeVaultInit", "activeVaultGetStatus", "activeVaultGet",
   "activeVaultList", "activeVaultAdd", "activeVaultRemove",
   "activeVaultClose", "activeVaultCreateInvite", "activeVaultDeleteInvite",
   "hashPassword", "encryptVaultKeyWithHashedPassword", "encryptVaultWithKey",
   "getDecryptionKey", "decryptVaultKey", "nmGetAppIdentity",
   "nmBeginHandshake", "nmFinishHandshake", "nmSecureRequest",
   "nmCloseSession", "pairActiveVault", "initListener", "closeAllInstances",
   "cancelPairActiveVault"}
\* a check that accepts every name
isValidCommand_Any(commandName) == TRUE

isValidCommand(commandName) == commandName \in COMMAND_NAMES

\* str.includes(sub)
Includes(str, sub) ==
  \E i \in 0..(Len(str) - Len(sub)) : SubSeq(str, i + 1, i + Len(sub)) = sub

ErrConnectionTimedOut == "Connection timed out"
ErrCallTimedOut == "IPC call timed out after 5 seconds"
\* the TypeError of this.ipcClient.on(...) when this.ipcClient is null
ErrNullClient == "Cannot read properties of null (reading 'on')"
\* the TypeError of this.ipcClient[methodName] when this.ipcClient is null
ErrNullMethod == "Cannot read properties of null"
ErrUnknownMethod(methodName) == "Unknown method: " \o methodName

\* new NativeMessagingHost()
NewHost ==
  [isRunning |-> FALSE, ipcClient |-> 0,
   desktopAppStatus |-> DESKTOP_APP_STATUS.UNKNOWN,
   started |-> FALSE, clients |-> <<>>, attempts |-> <<>>,
   requests |-> <<>>, sent |-> <<>>]

\* new IPC.Client(...): state is that of its open ("connecting", "ready",
\* "failed"); closeCalls counts the close() calls; listeners the 'close'
\* listeners the host registered; closeEmitted whether 'close' was emitted;
\* statusAfterClose and handleAfterClose what the host held when its
\* 'close' listener had run, handleAtClose what it held before
NewClient ==
  [state |-> "connecting", closed |-> FALSE, closeCalls |-> 0,
   listeners |-> 0, closeEmitted |-> FALSE,
   statusAtClose |-> "", handleAtClose |-> 0, runningAtClose |-> FALSE,
   statusAfterClose |-> "", handleAfterClose |-> 0]

\* an activation of connectToIPC: pc "race" while it awaits the race,
\* "returned" once it returned; handleAtCatch is this.ipcClient when the
\* catch block ran; statusAtReturn and handleAtReturn what it left;
\* statusBefore and handleBefore what the host held when the race settled,
\* and latest the number of activations there were by then
NewAttempt(client, caller) ==
  [client |-> client, caller |-> caller, pc |-> "race", outcome |-> "pending",
   error |-> "", handleAtCatch |-> 0, statusAtReturn |-> "",
   handleAtReturn |-> 0, statusBefore |-> "", handleBefore |-> 0,
   latest |-> 0]

\* the race of the activation a settles: what the host holds at that moment
Settling(h, a) ==
  [h EXCEPT !.attempts[a].statusBefore = h.desktopAppStatus,
            !.attempts[a].handleBefore = h.ipcClient,
            !.attempts[a].latest = Len(h.attempts)]

\* an activation of handleMessage for the message {id, method}; pc is the
\* await it is suspended at; destroyed counts the times its outer catch
\* met 'RPC destroyed', retries the times it called handleMessage again;
\* callError is what its last raced call failed with, statusAtThrow and
\* handleAtThrow what the host held when the catch around the call threw on;
\* params is the params object the message holds (undefined when it has
\* none), received what it was as the message arrived, cleanParams the
\* activation's local and callParams the argument of its last call;
\* callState is the state of the client as the method was called on it
NewRequest(id, method) ==
  [id |-> id, method |-> method, pc |-> "begin", callClient |-> 0,
   params |-> JUndefined, received |-> JUndefined,
   cleanParams |-> JUndefined, callParams |-> JUndefined, callState |-> "",
   error |-> "", retries |-> 0, destroyed |-> 0,
   statusAtReceive |-> "", inFlightAtReceive |-> 0, statusAfterConnect |-> "",
   callError |-> "", statusAtThrow |-> "", handleAtThrow |-> 0]

\* the 'message' listener is called with {id, method}: a new activation of
\* handleMessage, with what the host is in as it starts
Accept(h, id, method) ==
  [h EXCEPT !.requests =
     Append(@, [NewRequest(id, method) EXCEPT
                  !.statusAtReceive = h.desktopAppStatus,
                  !.inFlightAtReceive =
                    Cardinality({q \in 1..Len(h.requests) :
                                   h.requests[q].pc # "done"})])]

\* the 'message' listener is called with {id, method, params}
AcceptParams(h, id, method, params) ==
  [Accept(h, id, method) EXCEPT
     !.requests[Len(h.requests) + 1].params = params,
     !.requests[Len(h.requests) + 1].received = params]

\* delete v[key]
DeleteProperty(v, key) ==
  [v EXCEPT !.kv = SelectSeq(@, LAMBDA p : p.k # key)]

\* { ...v }: the own properties of an object; a number or a boolean has none
Spread(v) == IF v.t = "object" THEN JObj(v.kv) ELSE JObj(<<>>)

TxtPadding == TextOf("padding")

\* a cleaning that deletes the padding of the message's own params
Cleaned_InPlace(h, r) ==
  LET params == h.requests[r].params
      stripped == IF Truthy(params) THEN DeleteProperty(params, TxtPadding)
                  ELSE JObj(<<>>)
  IN [h EXCEPT !.requests[r].cleanParams = stripped,
               !.requests[r].params =
                 IF Truthy(params) THEN stripped ELSE params]

\* const cleanParams = params ? { ...params } : {}; delete cleanParams.padding
Cleaned(h, r) ==
  LET params == h.requests[r].params
      copy == IF Truthy(params) THEN Spread(params) ELSE JObj(<<>>)
  IN [h EXCEPT !.requests[r].cleanParams = DeleteProperty(copy, TxtPadding)]

\* a response: kind says which of the four object literals of handleMessage
\* it is, and request which activation sent it
Response(id, success, kind) ==
  [id |-> id, success |-> success, kind |-> kind, available |-> FALSE,
   status |-> "", message |-> "", error |-> "", errorCode |-> "",
   result |-> JUndefined, request |-> 0]

\* swapped branches
updateDesktopAppStatus_Swapped(h, message) ==
  [h EXCEPT !.desktopAppStatus =
     IF Includes(message, "ENOENT")
       THEN DESKTOP_APP_STATUS.INTEGRATION_DISABLED
       ELSE DESKTOP_APP_STATUS.NOT_RUNNING]

updateDesktopAppStatus(h, message) ==
  [h EXCEPT !.desktopAppStatus =
     IF Includes(message, "ENOENT")
       THEN DESKTOP_APP_STATUS.NOT_RUNNING
       ELSE DESKTOP_APP_STATUS.INTEGRATION_DISABLED]

\* if (this.ipcClient) { this.ipcClient.close(); this.ipcClient = null }
CloseAndDiscard(h) ==
  IF h.ipcClient = 0 THEN h
  ELSE [h EXCEPT !.clients[h.ipcClient].closeCalls = @ + 1,
                 !.clients[h.ipcClient].closed = TRUE,
                 !.ipcClient = 0]

\* connectToIPC up to its await
ConnectBegin(h, caller) ==
  LET client == Len(h.clients) + 1
  IN [h EXCEPT !.desktopAppStatus = DESKTOP_APP_STATUS.CONNECTING,
               !.clients = Append(@, NewClient),
               !.ipcClient = client,
               !.attempts = Append(@, NewAttempt(client, caller))]

\* a catch block that leaves the client in place
ConnectCatch_KeepHandle(h, a, message) ==
  LET kept == updateDesktopAppStatus(h, message)
  IN [kept EXCEPT !.attempts[a] =
        [@ EXCEPT !.pc = "returned", !.outcome = "failed",
                  !.error = message, !.handleAtCatch = h.ipcClient,
                  !.statusAtReturn = kept.desktopAppStatus,
                  !.handleAtReturn = kept.ipcClient]]

\* the catch block of connectToIPC, and its return
ConnectCatch(h, a, message) ==
  LET cleaned == CloseAndDiscard(updateDesktopAppStatus(h, message))
  IN [cleaned EXCEPT !.attempts[a] =
        [@ EXCEPT !.pc = "returned", !.outcome = "failed",
                  !.error = message, !.handleAtCatch = h.ipcClient,
                  !.statusAtReturn = cleaned.desktopAppStatus,
                  !.handleAtReturn = cleaned.ipcClient]]

\* connectToIPC after the race resolved
ConnectResolved(h, a) ==
  LET connected == [h EXCEPT !.desktopAppStatus = DESKTOP_APP_STATUS.CONNECTED]
  IN IF connected.ipcClient = 0
       THEN ConnectCatch(connected, a, ErrNullClient)
       ELSE [connected EXCEPT
               !.clients[connected.ipcClient].listeners = @ + 1,
               !.attempts[a] =
                 [@ EXCEPT !.pc = "returned", !.outcome = "connected",
                           !.statusAtReturn = connected.desktopAppStatus,
                           !.handleAtReturn = connected.ipcClient]]

\* this.handler.send(response), which ends the activation
SendResponse(h, r, response) ==
  [h EXCEPT !.sent = Append(@, [response EXCEPT !.request = r]),
            !.requests[r].pc = "done"]

\* an availability response that always reports available
SendAvailability_AlwaysAvailable(h, r) ==
  SendResponse(h, r,
    [Response(h.requests[r].id, TRUE, "availability") EXCEPT
       !.available = TRUE,
       !.status = h.desktopAppStatus,
       !.message = StatusMessageOrUnknown(h.desktopAppStatus)])

SendAvailability(h, r) ==
  SendResponse(h, r,
    [Response(h.requests[r].id, TRUE, "availability") EXCEPT
       !.available = (h.desktopAppStatus = DESKTOP_APP_STATUS.CONNECTED),
       !.status = h.desktopAppStatus,
       !.message = StatusMessageOrUnknown(h.desktopAppStatus)])

\* a status failure without its errorCode
SendStatusError_NoCode(h, r) ==
  SendResponse(h, r,
    [Response(h.requests[r].id, FALSE, "status-error") EXCEPT
       !.error = StatusMessageOrUnknown(h.desktopAppStatus)])

SendStatusError(h, r) ==
  SendResponse(h, r,
    [Response(h.requests[r].id, FALSE, "status-error") EXCEPT
       !.error = StatusMessageOrUnknown(h.desktopAppStatus),
       !.errorCode = h.desktopAppStatus])

\* a failure sent as a success
SendError_Success(h, r, message) ==
  SendResponse(h, r,
    [Response(h.requests[r].id, TRUE, "error") EXCEPT !.error = message])

SendError(h, r, message) ==
  SendResponse(h, r,
    [Response(h.requests[r].id, FALSE, "error") EXCEPT !.error = message])

SendResult(h, r, result) ==
  SendResponse(h, r,
    [Response(h.requests[r].id, TRUE, "result") EXCEPT !.result = result])

\* reconnectIPC up to its await of connectToIPC; pc names the await of
\* handleMessage it was called from
ReconnectBegin(h, r, pc) ==
  ConnectBegin([CloseAndDiscard(h) EXCEPT !.requests[r].pc = pc], r)

\* the outer catch block of handleMessage
HandleMessageCatch(h, r, message) ==
  IF Includes(message, "RPC destroyed")
    THEN ReconnectBegin([h EXCEPT !.requests[r].error = message,
                                  !.requests[r].destroyed = @ + 1], r,
                        "retry-reconnect")
    ELSE SendError(h, r, message)

\* handleMessage from the call of the method to its await
Invoke(h, r) ==
  IF isValidCommand(h.requests[r].method)
    THEN IF h.ipcClient = 0
           THEN HandleMessageCatch(h, r, ErrNullMethod)
           ELSE [h EXCEPT !.requests[r].pc = "call",
                          !.requests[r].callClient = h.ipcClient,
                          !.requests[r].callParams =
                            h.requests[r].cleanParams,
                          !.requests[r].callState =
                            h.clients[h.ipcClient].state]
    ELSE HandleMessageCatch(h, r, ErrUnknownMethod(h.requests[r].method))

\* handleMessage from "Check if IPC client is still connected"
CheckClient(h, r) ==
  IF h.ipcClient = 0 \/ h.clients[h.ipcClient].closed
    THEN ReconnectBegin(h, r, "reconnect")
    ELSE Invoke(h, r)

\* handleMessage after its locals, up to its first await or its return
AfterClean(h, r) ==
  IF h.requests[r].method = "checkAvailability"
    THEN IF h.desktopAppStatus # DESKTOP_APP_STATUS.CONNECTED
           THEN ConnectBegin([h EXCEPT !.requests[r].pc = "availability"], r)
           ELSE SendAvailability(h, r)
  ELSE IF h.desktopAppStatus # DESKTOP_APP_STATUS.CONNECTED
    THEN ConnectBegin([h EXCEPT !.requests[r].pc = "connect"], r)
  ELSE CheckClient(h, r)

\* handleMessage: the locals of its try block, then the rest
handleMessage(h, r) == AfterClean(Cleaned(h, r), r)

\* what follows the await of connectToIPC in the activation r, up to its
\* next await or its return
AfterConnect(h0, r) ==
  LET pc == h0.requests[r].pc
      h == IF pc \in {"availability", "connect"}
             THEN [h0 EXCEPT !.requests[r].statusAfterConnect =
                               h0.desktopAppStatus]
             ELSE h0
      connected == h.desktopAppStatus = DESKTOP_APP_STATUS.CONNECTED
      reconnectError == STATUS_MESSAGES(h.desktopAppStatus)
  IN CASE pc = "availability" -> SendAvailability(h, r)
       [] pc = "connect" ->
            IF connected THEN CheckClient(h, r) ELSE SendStatusError(h, r)
       [] pc = "reconnect" ->
            IF connected THEN Invoke(h, r)
            ELSE HandleMessageCatch(h, r, reconnectError)
       [] pc = "retry-reconnect" ->
            IF connected
              THEN handleMessage([h EXCEPT !.requests[r].retries = @ + 1], r)
              ELSE SendError(updateDesktopAppStatus(h, reconnectError), r,
                             h.requests[r].error)

\* the caller of the attempt a resumes; start() does not await
Resume(h, a) ==
  IF h.attempts[a].caller = 0 THEN h ELSE AfterConnect(h, h.attempts[a].caller)

\* the raced call of the activation r failed with message: what the host
\* holds as the catch around the call throws the error on
Rethrown(h, r, message) ==
  [h EXCEPT !.requests[r].callError = message,
            !.requests[r].statusAtThrow = h.desktopAppStatus,
            !.requests[r].handleAtThrow = h.ipcClient]

\* a catch around the raced call that keeps the client
CallFailed_KeepHandle(h, r, message) ==
  HandleMessageCatch(
    Rethrown(IF Includes(message, "timed out")
                  \/ Includes(message, "RPC destroyed")
               THEN [h EXCEPT
                       !.desktopAppStatus = DESKTOP_APP_STATUS.NOT_RUNNING]
               ELSE h,
             r, message),
    r, message)

\* the catch around the raced call, then the outer catch
CallFailed(h, r, message) ==
  HandleMessageCatch(
    Rethrown(IF Includes(message, "timed out")
                  \/ Includes(message, "RPC destroyed")
               THEN [h EXCEPT
                       !.desktopAppStatus = DESKTOP_APP_STATUS.NOT_RUNNING,
                       !.ipcClient = 0]
               ELSE h,
             r, message),
    r, message)

\* the 'close' listener registered by connectToIPC
OnClientClose(h) ==
  [h EXCEPT !.desktopAppStatus = DESKTOP_APP_STATUS.NOT_RUNNING,
            !.ipcClient = 0]

\* the 'close' listener of the client c has run: what the host held
\* before, and what it holds now
Closed(h, c, before) ==
  [h EXCEPT !.clients[c].statusAtClose = before.desktopAppStatus,
            !.clients[c].handleAtClose = before.ipcClient,
            !.clients[c].runningAtClose = before.isRunning,
            !.clients[c].statusAfterClose = h.desktopAppStatus,
            !.clients[c].handleAfterClose = h.ipcClient]

\* stop() of a running host
HostStop(h) == CloseAndDiscard([h EXCEPT !.isRunning = FALSE])

(***************************************************************************)
(* State.                                                                  *)
(*   envelope calls: envKind says what the calls started from ("message":  *)
(*     wrapMessage(envMessage); "candidate": an arbitrary value envWrapped;*)
(*     "idle": none), envStep how far they went, envDelta by how much the  *)
(*     length field was changed, envResult what unwrapMessage returned,    *)
(*     envIs what isWrappedMessage returned;                               *)
(*   scanner calls: scanObject is a JSON object, scanText its text with    *)
(*     what surrounds it in the buffer, scanOpen the index of the first    *)
(*     opening brace, scanEnd the end index found from there;              *)
(*   framing: handler is the NativeMessagingHandler; wire the bytes stdin  *)
(*     has still to deliver, in chunks of any size; bulk the chunks stdin  *)
(*     has still to deliver whole; frames the frames put on the wire, each *)
(*     [header, value]: the 4 header bytes and the value whose JSON text   *)
(*     is the payload; twin a second NativeMessagingHandler, for the runs  *)
(*     that feed the same chunks to both strategies;                       *)
(*   host: the NativeMessagingHost and what surrounds it.                  *)
(***************************************************************************)
VARIABLES envKind, envStep, envMessage, envWrapped, envDelta, envResult, envIs,
          scanStep, scanObject, scanText, scanOpen, scanEnd,
          handler, wire, bulk, frames, twin,
          host

envVars == <<envKind, envStep, envMessage, envWrapped, envDelta, envResult, envIs>>
scanVars == <<scanStep, scanObject, scanText, scanOpen, scanEnd>>
framingVars == <<handler, wire, bulk, frames, twin>>
vars == <<envVars, scanVars, framingVars, host>>
notEnv == <<scanVars, framingVars, host>>
notScan == <<envVars, framingVars, host>>
notFraming == <<envVars, scanVars, host>>
notHost == <<envVars, scanVars, framingVars>>

EnvIdle ==
  /\ envKind = "idle" /\ envStep = "idle" /\ envMessage = JNull
  /\ envWrapped = JNull /\ envDelta = 0 /\ envResult = JNull /\ envIs = FALSE

ScanIdle ==
  /\ scanStep = "idle" /\ scanObject = JNull /\ scanText = <<>>
  /\ scanOpen = -1 /\ scanEnd = -1

FramingIdle ==
  /\ handler = NewHandler /\ wire = <<>> /\ bulk = <<>> /\ frames = <<>>
  /\ twin = NewHandler

HostIdle == host = NewHost

(***************************************************************************)
(* The values the envelope is exercised with.                              *)
(***************************************************************************)
KeyA == <<CH.a>>
KeyB == <<CH.b>>
KeyE == <<CH.EACUTE>>

StrAlphabet == {CH.a, CH.QUOTE, CH.BSLASH, CH.LBRACE, CH.RBRACE, CH.EACUTE}
Strs == UNION {[1..k -> StrAlphabet] : k \in 0..MaxStrLen}
Atoms ==
  {JNull, JBool(TRUE), JBool(FALSE)}
    \cup {JNum(i) : i \in -1..MaxNum} \cup {JStr(str) : str \in Strs}
SmallAtoms ==
  {JNull, JBool(FALSE), JNum(0), JNum(7), JStr(<<>>), JStr(<<CH.EACUTE>>)}

\* JSON-serializable messages
Messages ==
  Atoms
    \cup {JObj(<<>>), JArr(<<>>)}
    \cup {JObj(<<Prop(KeyA, x)>>) : x \in Atoms}
    \cup {JObj(<<Prop(KeyE, x)>>) : x \in SmallAtoms}
    \cup {JArr(<<x>>) : x \in SmallAtoms}
    \cup {JArr(<<x, JObj(<<Prop(KeyA, x)>>)>>) : x \in SmallAtoms}
    \cup {JObj(<<Prop(KeyA, JObj(<<Prop(KeyB, x)>>))>>) : x \in SmallAtoms}
    \cup {JObj(<<Prop(KeyA, x), Prop(KeyB, y)>>) : x, y \in SmallAtoms}
    \cup {wrapMessage(x) : x \in SmallAtoms}

\* arbitrary values handed to isWrappedMessage / unwrapMessage
LengthValues == {JNum(0), JNum(2), JNum(5), JStr(<<CH.ZERO + 2>>), JNull, JUndefined}
MessageValues == {JNull, JUndefined, JNum(0), JStr(KeyA), JObj(<<>>), JArr(<<>>)}
Candidates ==
  {JNull, JUndefined, JNum(0), JNum(123), JStr(<<>>), JStr(KeyA), JBool(TRUE),
   JBool(FALSE), JObj(<<>>), JArr(<<>>), JArr(<<JNum(1), JNum(2)>>),
   JObj(<<Prop(KeyA, JNum(1)), Prop(KeyB, JNum(2))>>)}
    \cup {JObj(<<Prop(TxtLength, l)>>) : l \in LengthValues}
    \cup {JObj(<<Prop(TxtMessage, m)>>) : m \in MessageValues}
    \cup {JObj(<<Prop(TxtLength, l), Prop(TxtMessage, m)>>) :
            l \in LengthValues, m \in MessageValues}
    \cup {JObj(<<Prop(TxtMessage, m), Prop(TxtLength, l)>>) :
            l \in LengthValues, m \in MessageValues}
    \cup {JObj(<<Prop(TxtLength, l), Prop(KeyA, m)>>) :
            l \in LengthValues, m \in MessageValues}
    \cup {JObj(<<Prop(KeyA, l), Prop(TxtMessage, m)>>) :
            l \in LengthValues, m \in MessageValues}
    \cup {JObj(<<Prop(TxtLength, l), Prop(TxtMessage, m), Prop(KeyA, m)>>) :
            l \in LengthValues, m \in MessageValues}

(***************************************************************************)
(* The envelope's calls.                                                   *)
(***************************************************************************)
EnvInit ==
  /\ envStep = "start" /\ envDelta = 0 /\ envResult = JNull /\ envIs = FALSE
  /\ \/ envKind = "message" /\ envMessage \in Messages /\ envWrapped = JNull
     \/ envKind = "candidate" /\ envMessage = JNull /\ envWrapped \in Candidates

\* wrapped = wrapMessage(msg)
EnvWrap ==
  /\ envKind = "message" /\ envStep = "start"
  /\ envWrapped' = wrapMessage(envMessage)
  /\ envStep' = "wrapped"
  /\ UNCHANGED <<envKind, envMessage, envDelta, envResult, envIs, notEnv>>

\* wrapped.length = wrapped.length + d
EnvTamper ==
  /\ envKind = "message" /\ envStep = "wrapped"
  /\ \E d \in (-MaxDelta..MaxDelta) \ {0} :
       /\ envWrapped' = SetProperty(envWrapped, TxtLength,
                          JNum(GetProperty(envWrapped, TxtLength).n + d))
       /\ envDelta' = d
  /\ envStep' = "tampered"
  /\ UNCHANGED <<envKind, envMessage, envResult, envIs, notEnv>>

\* unwrapMessage(wrapped)
EnvUnwrap ==
  /\ \/ envKind = "message" /\ envStep \in {"wrapped", "tampered"}
     \/ envKind = "candidate" /\ envStep = "start"
  /\ envResult' = unwrapMessage(envWrapped)
  /\ envStep' = "unwrapped"
  /\ UNCHANGED <<envKind, envMessage, envWrapped, envDelta, envIs, notEnv>>

\* isWrappedMessage(value)
EnvIsWrapped ==
  /\ envKind = "candidate" /\ envStep = "start"
  /\ envIs' = isWrappedMessage(envWrapped)
  /\ envStep' = "tested"
  /\ UNCHANGED <<envKind, envMessage, envWrapped, envDelta, envResult, notEnv>>

EnvNext == EnvWrap \/ EnvTamper \/ EnvUnwrap \/ EnvIsWrapped

InitEnvelope == EnvInit /\ ScanIdle /\ FramingIdle /\ HostIdle

SpecEnvelope == InitEnvelope /\ [][EnvNext]_vars

(***************************************************************************)
(* Claims about the envelope, under SpecEnvelope.                          *)
(***************************************************************************)
RoundTripDone == envKind = "message" /\ envStep = "unwrapped" /\ envDelta = 0
TamperDone == envKind = "message" /\ envStep = "unwrapped" /\ envDelta # 0

\* C1: round trip.  For every JSON-serializable message m,
\* unwrapMessage(wrapMessage(m)) returns m.
C1_RoundTrip == RoundTripDone => envResult = envMessage

\* C1 witness: an object holding a two-byte character went through wrap and
\* unwrap and came back.
C1_Witness ==
  /\ RoundTripDone
  /\ envMessage = JObj(<<Prop(KeyA, JStr(<<CH.EACUTE, CH.QUOTE>>))>>)
  /\ envResult = envMessage
  /\ GetProperty(envWrapped, TxtLength).n = Len(Stringify(envMessage)) + 1

\* C2: tamper detection.  For every message m and every nonzero d,
\* wrapMessage(m) with its length changed by d is rejected: unwrapMessage
\* returns null (it does not throw and does not return the message).
C2_TamperRejected == TamperDone => envResult = JNull

\* C2 witness: a one-key object whose length field was lowered by one was
\* unwrapped to null.
C2_Witness ==
  /\ TamperDone /\ envDelta = -1
  /\ envMessage = JObj(<<Prop(KeyA, JNum(10))>>)
  /\ GetProperty(envWrapped, TxtLength).n = 7
  /\ envResult = JNull

\* the shape the claim describes: an object with exactly the two fields
\* length, a number, and message
WrappedShape(v) ==
  /\ v.t = "object"
  /\ Len(v.kv) = 2
  /\ {v.kv[1].k, v.kv[2].k} = {TxtLength, TxtMessage}
  /\ \E i \in 1..2 : v.kv[i].k = TxtLength /\ v.kv[i].v.t = "number"

\* C3: isWrappedMessage(v) is true exactly when v is an object with exactly
\* the two fields length (a number) and message (present), whatever the
\* length says about the message's size; it is false for null, undefined,
\* non-objects, a missing field, an extra field.
C3_IsWrappedShape == envStep = "tested" => (envIs <=> WrappedShape(envWrapped))

\* C3 witness: a value of the shape was accepted although its length field
\* (5) is not the byte length of its message ({} is 2 bytes).
C3_Witness ==
  /\ envStep = "tested" /\ envIs
  /\ envWrapped = JObj(<<Prop(TxtLength, JNum(5)), Prop(TxtMessage, JObj(<<>>))>>)
  /\ ByteLength(Stringify(GetProperty(envWrapped, TxtMessage))) = 2

(***************************************************************************)
(* The brace scanner on the texts of JSON objects.                         *)
(***************************************************************************)
ScanObjects == {m \in Messages : m.t = "object"}
\* what may precede the object in the text (no opening brace) and follow it
ScanPrefixes == {<<>>, <<CH.QUOTE, CH.a, CH.RBRACE>>}
ScanSuffixes ==
  {<<>>, <<CH.RBRACE>>, <<CH.QUOTE, CH.RBRACE>>,
   <<7, 0, 0, 0>> \o Stringify(JObj(<<Prop(KeyA, JNum(1))>>))}

ScanInit ==
  /\ scanStep = "start" /\ scanOpen = -1 /\ scanEnd = -1
  /\ scanObject \in ScanObjects
  /\ \E pre \in ScanPrefixes, post \in ScanSuffixes :
       scanText = pre \o Stringify(scanObject) \o post

\* openBrace = text.indexOf('{', 0), then the for loop from openBrace
ScanRun ==
  /\ scanStep = "start"
  /\ scanOpen' = IndexOf(scanText, CH.LBRACE, 0)
  /\ scanEnd' = FindEndIndex(scanText, IndexOf(scanText, CH.LBRACE, 0))
  /\ scanStep' = "scanned"
  /\ UNCHANGED <<scanObject, scanText, notScan>>

InitScan == ScanInit /\ EnvIdle /\ FramingIdle /\ HostIdle

SpecScan == InitScan /\ [][ScanRun]_vars

\* C8: brace counting does not count braces inside string literals and an
\* escaped quote does not end a string: for every valid JSON object text the
\* first balanced span from the first opening brace is the whole object.
C8_SpanIsObject ==
  scanStep = "scanned" =>
    /\ scanEnd # -1
    /\ SubSeq(scanText, scanOpen + 1, scanEnd) = Stringify(scanObject)

\* C8 witness: the object {"a":"\"}"} (its string holds an escaped quote and
\* a closing brace) was scanned, with text after it, and its span ends at its
\* own last brace.
C8_Witness ==
  /\ scanStep = "scanned"
  /\ scanObject = JObj(<<Prop(KeyA, JStr(<<CH.QUOTE, CH.RBRACE>>))>>)
  /\ scanOpen = 0 /\ scanEnd = 11 /\ Len(scanText) > 11

(***************************************************************************)
(* Framing: stdin delivers the bytes of frames to handleIncomingChunk.     *)
(***************************************************************************)
\* the payload of a frame: the UTF-8 bytes of the JSON text of its value
PayloadBytes(f) == Utf8Encode(Stringify(f.value))
FrameBytes(f) == f.header \o PayloadBytes(f)
\* a frame as the browser writes it: the header is the payload's length
Frame(value) ==
  [header |-> WriteUInt32LE(ByteLength(Stringify(value))), value |-> value]
CorrectHeader(f) == f.header = WriteUInt32LE(Len(PayloadBytes(f)))

RECURSIVE WireOf(_)
\* the byte stream of a sequence of frames
WireOf(fs) == IF fs = <<>> THEN <<>> ELSE FrameBytes(Head(fs)) \o WireOf(Tail(fs))

\* payloads that are JSON objects and not of the envelope's shape
PlainObjects ==
  {JObj(<<Prop(KeyA, JStr(str))>>) : str \in Strs}
    \cup {JObj(<<>>),
          JObj(<<Prop(KeyA, JNum(1)), Prop(KeyB, JNum(2))>>),
          JObj(<<Prop(KeyA, JObj(<<Prop(KeyB, JObj(<<>>))>>))>>),
          JObj(<<Prop(KeyA, JArr(<<JObj(<<>>), JStr(<<CH.RBRACE>>)>>))>>),
          JObj(<<Prop(KeyE, JBool(TRUE))>>),
          JObj(<<Prop(TxtLength, JNum(2))>>),
          JObj(<<Prop(TxtLength, JStr(KeyA)), Prop(TxtMessage, JObj(<<>>))>>)}
\* payloads of the envelope's shape: well-formed ones, ones carrying a
\* falsy message, one whose length does not match
EnvelopeObjects ==
  {wrapMessage(x) : x \in {JObj(<<Prop(KeyA, JNum(1))>>), JObj(<<>>), JNum(7),
                           JNum(0), JStr(<<>>), JBool(FALSE), JNull}}
    \cup {JObj(<<Prop(TxtLength, JNum(5)), Prop(TxtMessage, JObj(<<>>))>>)}
\* valid JSON that is not an object
NonObjects ==
  {JNum(7), JStr(KeyA), JNull, JBool(TRUE), JArr(<<JNum(1)>>),
   JArr(<<JObj(<<>>)>>)}
FrameValues == PlainObjects \cup EnvelopeObjects \cup NonObjects

\* headers that do not hold the payload's length.  Strict framing reads
\* them: 1,048,577, 1,048,576 and 16,777,216.  Tolerant framing skips them.
OversizeHeader == WriteUInt32LE(MESSAGE_SIZE_LIMIT + 1)
LimitHeader == WriteUInt32LE(MESSAGE_SIZE_LIMIT)
StrictHeaders == {OversizeHeader, LimitHeader, <<0, 0, 0, 1>>}
TolerantHeaders ==
  {<<0, 0, 0, 0>>, <<255, 255, 255, 255>>,
   <<CH.LBRACE, CH.QUOTE, CH.BSLASH, CH.RBRACE>>}

\* every byte below 128, so that no group of four read as a header after an
\* oversize rejection exceeds 32 bits' positive range
IsAscii(bytes) == \A k \in 1..Len(bytes) : bytes[k] < 128

SingleFrames(robust) ==
  {Frame(v) : v \in FrameValues}
    \cup {[header |-> hd, value |-> v] :
            hd \in (IF robust THEN TolerantHeaders ELSE {}), v \in FrameValues}
    \cup {[header |-> hd, value |-> v] :
            hd \in (IF robust THEN {} ELSE StrictHeaders),
            v \in {x \in FrameValues : IsAscii(Utf8Encode(Stringify(x)))}}

\* the frames that follow one another in a longer stream
StreamFrames(robust) ==
  {Frame(v) : v \in {JObj(<<Prop(KeyA, JNum(1))>>),
                     JObj(<<Prop(KeyA, JStr(<<CH.RBRACE, CH.EACUTE>>))>>),
                     JObj(<<Prop(KeyB, JObj(<<>>))>>),
                     wrapMessage(JObj(<<Prop(KeyA, JNum(1))>>))}}
    \cup {[header |-> hd, value |-> JObj(<<Prop(KeyA, JNum(1))>>)] :
            hd \in (IF robust THEN {} ELSE {OversizeHeader})}

\* a stream that holds an oversize header holds only bytes below 128
FrameSeqs(robust) ==
  {<<f>> : f \in SingleFrames(robust)}
    \cup {fs \in UNION {[1..k -> StreamFrames(robust)] : k \in 2..MaxFrames} :
            (\E k \in 1..Len(fs) : ~CorrectHeader(fs[k])) => IsAscii(WireOf(fs))}

FramingInit ==
  /\ bulk = <<>> /\ twin = NewHandler
  /\ \E robust \in BOOLEAN :
       /\ handler = [NewHandler EXCEPT !.useRobustParsing = robust]
       /\ frames \in FrameSeqs(robust)
  /\ wire = WireOf(frames)

\* process.stdin 'data': the next k bytes arrive as one chunk
Deliver ==
  /\ wire # <<>>
  /\ \E k \in 1..Len(wire) :
       /\ handler' = handleIncomingChunk(handler, SubSeq(wire, 1, k))
       /\ wire' = SubSeq(wire, k + 1, Len(wire))
  /\ UNCHANGED <<bulk, frames, twin, notFraming>>

InitFraming == FramingInit /\ EnvIdle /\ ScanIdle /\ HostIdle

SpecFraming == InitFraming /\ [][Deliver]_vars

\* the payloads of the events the listeners saw, in order
EventPayloads(h) == [k \in 1..Len(h.events) |-> h.events[k].payload]
IsPrefix(a, b) == Len(a) <= Len(b) /\ a = SubSeq(b, 1, Len(a))

\* one frame with a correct header was put on the wire of a strict handler
StrictSingleFrame ==
  /\ Len(frames) = 1 /\ ~handler.useRobustParsing /\ CorrectHeader(frames[1])

\* the event an envelope-shaped payload leads to: its inner message or the
\* unwrap error
EnvelopeOutcomes(value) ==
  {MessageEvent(GetProperty(value, TxtMessage)), ErrorEvent(ErrUnwrap)}

\* an envelope-shaped payload whose inner message is falsy (0, "", false,
\* null)
FalsyEnvelope(value) ==
  isWrappedMessage(value) /\ ~Truthy(GetProperty(value, TxtMessage))

\* C4 as stated (payloads that are envelopes around a falsy message left
\* aside): a strict frame of L bytes of valid JSON, in any split into chunks,
\* fires exactly one message event carrying the parsed payload, only once the
\* last byte has arrived, and leaves the buffer empty.
C4_Original ==
  (StrictSingleFrame /\ ~FalsyEnvelope(frames[1].value)) =>
    /\ wire # <<>> => handler.events = <<>>
    /\ wire = <<>> =>
         /\ handler.events = <<MessageEvent(frames[1].value)>>
         /\ handler.inputBuffer = <<>>

\* C4 amended: a strict frame of L <= 1,048,576 bytes of valid JSON, in any
\* split into chunks, fires exactly one event, only once the last byte has
\* arrived, and leaves the buffer empty; the event is a message event carrying
\* the parsed payload when the payload is not of the envelope's shape, and
\* otherwise a message event carrying the envelope's inner message or an
\* unwrap error.
C4_StrictSingleFrame ==
  StrictSingleFrame =>
    /\ wire # <<>> => handler.events = <<>>
    /\ wire = <<>> =>
         /\ Len(handler.events) = 1
         /\ handler.inputBuffer = <<>>
         /\ ~isWrappedMessage(frames[1].value) =>
              handler.events = <<MessageEvent(frames[1].value)>>
         /\ isWrappedMessage(frames[1].value) =>
              handler.events[1] \in EnvelopeOutcomes(frames[1].value)

\* C4 witness: the frame of {"a":"}é"} arrived in more than one chunk (the
\* header was read by an earlier chunk's call), the last chunk's first call
\* emitted it and the second found the buffer empty.
C4_Witness ==
  /\ StrictSingleFrame /\ wire = <<>>
  /\ frames[1].value = JObj(<<Prop(KeyA, JStr(<<CH.RBRACE, CH.EACUTE>>))>>)
  /\ handler.events = <<MessageEvent(frames[1].value)>>
  /\ Len(handler.calls) = 2
  /\ handler.calls[1].declared = -1 /\ handler.calls[1].ret
  /\ handler.calls[2].before = 0 /\ ~handler.calls[2].ret

\* C5: a strict call that reads a declared length above 1,048,576 empties the
\* whole buffer, resets the framing state, returns false and emits nothing;
\* one that reads a declared length of at most 1,048,576 discards nothing: it
\* either takes exactly that frame or keeps the buffer and waits for it.
C5_OversizeRejected ==
  \A i \in 1..Len(handler.calls) :
    LET c == handler.calls[i]
    IN (~c.robust /\ c.declared # -1) =>
         IF c.declared > 1048576
           THEN /\ ~c.ret /\ c.after = 0 /\ c.emitted = 0
                /\ i = Len(handler.calls)
                /\ handler.inputBuffer = <<>>
                /\ ~handler.messageInProgress
                /\ handler.expectedMessageLength = 0
           ELSE \/ c.after = c.before - 4 - c.declared
                \/ /\ c.after = c.before /\ ~c.ret /\ c.emitted = 0
                   /\ i = Len(handler.calls)
                   /\ handler.messageInProgress
                   /\ handler.expectedMessageLength = c.declared

\* C5 witness: a header declaring 1,048,577 arrived in one chunk with the 7
\* bytes after it, and the call left nothing in the buffer.
C5_Witness ==
  /\ ~handler.useRobustParsing
  /\ Len(frames) = 1 /\ frames[1].header = OversizeHeader
  /\ Len(handler.calls) = 1
  /\ handler.calls[1].declared = 1048577 /\ handler.calls[1].before = 11
  /\ handler.calls[1].after = 0 /\ ~handler.calls[1].ret
  /\ handler.inputBuffer = <<>> /\ handler.events = <<>>

\* the buffer of a tolerant handler held 4 header bytes and one complete JSON
\* object when processNextMessageRobust was called
TolerantSingleObject ==
  /\ Len(frames) = 1 /\ handler.useRobustParsing
  /\ frames[1].value.t = "object"
  /\ wire = <<>>
  /\ handler.calls # <<>>
  /\ handler.calls[1].before = Len(FrameBytes(frames[1]))

\* C6 as stated (envelopes around a falsy message left aside): with 4 header
\* bytes of any value and one complete valid JSON object in the buffer,
\* processNextMessageRobust emits exactly that object as a message, returns
\* true and leaves the buffer empty.
C6_Original ==
  (TolerantSingleObject /\ ~FalsyEnvelope(frames[1].value)) =>
    /\ handler.calls[1].ret /\ handler.calls[1].after = 0
    /\ handler.events = <<MessageEvent(frames[1].value)>>
    /\ handler.inputBuffer = <<>>

\* C6 amended: with 4 header bytes of any value and one complete valid JSON
\* object in the buffer, processNextMessageRobust returns true, emits exactly
\* one event and leaves the buffer empty; the event is a message event
\* carrying that object when the object is not of the envelope's shape, and
\* otherwise a message event carrying the envelope's inner message or an
\* unwrap error.
C6_TolerantSingleObject ==
  TolerantSingleObject =>
    /\ handler.calls[1].ret /\ handler.calls[1].after = 0
    /\ handler.calls[1].emitted = 1
    /\ Len(handler.events) = 1
    /\ handler.inputBuffer = <<>>
    /\ ~isWrappedMessage(frames[1].value) =>
         handler.events = <<MessageEvent(frames[1].value)>>
    /\ isWrappedMessage(frames[1].value) =>
         handler.events[1] \in EnvelopeOutcomes(frames[1].value)

\* C6 witness: the header bytes { " \ } precede the object {"a":"\"}"} and the
\* object was emitted.
C6_Witness ==
  /\ TolerantSingleObject
  /\ frames[1].header = <<CH.LBRACE, CH.QUOTE, CH.BSLASH, CH.RBRACE>>
  /\ frames[1].value = JObj(<<Prop(KeyA, JStr(<<CH.QUOTE, CH.RBRACE>>))>>)
  /\ handler.events = <<MessageEvent(frames[1].value)>>
  /\ handler.inputBuffer = <<>>

\* complete frames: every header holds its payload's length
CompleteFrames == \A k \in 1..Len(frames) : CorrectHeader(frames[k])
FrameValuesOf(fs) == [k \in 1..Len(fs) |-> fs[k].value]

\* a payload that is a JSON object, either not of the envelope's shape or a
\* well-formed envelope around an object
IsObjectMessage(value) ==
  /\ value.t = "object"
  /\ isWrappedMessage(value) =>
       /\ GetProperty(value, TxtMessage).t = "object"
       /\ unwrapMessage(value) = GetProperty(value, TxtMessage)
\* the message such a payload stands for
MessageOf(value) ==
  IF isWrappedMessage(value) THEN GetProperty(value, TxtMessage) ELSE value

Filler(n) == [k \in 1..n |-> CH.a]
\* what follows the 4 header bytes, before the filler
ValveHeads ==
  {<<>>, <<CH.LBRACE>>, <<CH.RBRACE>>, <<CH.QUOTE>>,
   <<CH.LBRACE, CH.a, CH.RBRACE>>, <<CH.LBRACE, CH.QUOTE>>,
   <<CH.LBRACE, CH.RBRACE>>}
\* the chunks that follow the large one
ValveTails ==
  {<<>>, <<<<CH.a>>>>, <<<<CH.RBRACE>>>>, <<<<CH.a>>, <<CH.a, CH.a>>>>}

ValveInit ==
  /\ handler = NewHandler /\ wire = <<>> /\ frames = <<>>
  /\ twin = NewHandler
  /\ \E head \in ValveHeads, tail \in ValveTails,
        size \in (ROBUST_BUFFER_LIMIT - MaxOver)..(ROBUST_BUFFER_LIMIT + MaxOver) :
       bulk = <<<<0, 0, 0, 0>> \o head \o Filler(size - 4 - Len(head))>> \o tail

\* process.stdin 'data': the next chunk arrives whole
DeliverChunk ==
  /\ bulk # <<>>
  /\ handler' = handleIncomingChunk(handler, Head(bulk))
  /\ bulk' = Tail(bulk)
  /\ UNCHANGED <<wire, frames, twin, notFraming>>

InitValve == ValveInit /\ EnvIdle /\ ScanIdle /\ HostIdle

SpecValve == InitValve /\ [][DeliverChunk]_vars

\* C7: after any call of processNextMessageRobust that extracts no message
\* while the input buffer holds more than 10,000 bytes, the input buffer is
\* empty.
C7_ValveClears ==
  \A i \in 1..Len(handler.calls) :
    LET c == handler.calls[i]
    IN (c.robust /\ ~c.ret /\ c.emitted = 0 /\ c.before > 10000) => c.after = 0

(***************************************************************************)
(* The host: start, messages from the extension, the outcomes of the       *)
(* connect race and of the raced call, 'close' events, stop.  A promise    *)
(* that settles resumes what awaits it before any other event is handled,  *)
(* so a settlement and the code it resumes are one step.                   *)
(***************************************************************************)
\* what ready() rejects with
ConnectErrors ==
  {"connect ENOENT /tmp/pearpass-native-messaging.sock",
   "connect ECONNREFUSED /tmp/pearpass-native-messaging.sock"}
\* what a method of the client rejects with
CallErrors == {"RPC destroyed", "Vault not found"}
\* what a method of the client resolves with
CallResults == {JUndefined, JArr(<<>>)}
\* the method names of the messages the extension sends
RequestMethods == {"checkAvailability", "vaultsList", "bogus"}

\* the texts a response can carry, converted once
ResponseStrings ==
  {DESKTOP_APP_STATUS[k] : k \in DOMAIN DESKTOP_APP_STATUS}
    \cup {STATUS_MESSAGES(DESKTOP_APP_STATUS[k]) : k \in DOMAIN DESKTOP_APP_STATUS}
    \cup CallErrors \cup {ErrCallTimedOut, ErrNullMethod}
    \cup {ErrUnknownMethod(m) : m \in RequestMethods \cup {"undefined"}}
TextTable == [str \in ResponseStrings |-> TextOf(str)]
Text(str) == IF str \in ResponseStrings THEN TextTable[str] ELSE TextOf(str)

TxtId == TextOf("id")
TxtSuccess == TextOf("success")
TxtResult == TextOf("result")
TxtError == TextOf("error")
TxtErrorCode == TextOf("errorCode")
TxtAvailable == TextOf("available")
TxtStatus == TextOf("status")

\* the object literal handed to this.handler.send
ResponseValue(resp) ==
  CASE resp.kind = "availability" ->
         JObj(<<Prop(TxtId, resp.id), Prop(TxtSuccess, JBool(resp.success)),
                Prop(TxtResult,
                     JObj(<<Prop(TxtAvailable, JBool(resp.available)),
                            Prop(TxtStatus, JStr(Text(resp.status))),
                            Prop(TxtMessage, JStr(Text(resp.message)))>>))>>)
    [] resp.kind = "status-error" ->
         JObj(<<Prop(TxtId, resp.id), Prop(TxtSuccess, JBool(resp.success)),
                Prop(TxtError, JStr(Text(resp.error))),
                Prop(TxtErrorCode, JStr(Text(resp.errorCode)))>>)
    [] resp.kind = "error" ->
         JObj(<<Prop(TxtId, resp.id), Prop(TxtSuccess, JBool(resp.success)),
                Prop(TxtError, JStr(Text(resp.error)))>>)
    [] resp.kind = "result" ->
         JObj(<<Prop(TxtId, resp.id), Prop(TxtSuccess, JBool(resp.success)),
                Prop(TxtResult, resp.result)>>)

\* the step leaves at most MaxClients clients
Within(h) == Len(h.clients) <= MaxClients

HostInit == host = NewHost

\* host.start(): the listeners, handler.start(), then connectToIPC() without
\* awaiting it
Start ==
  /\ ~host.started
  /\ host' = ConnectBegin([host EXCEPT !.started = TRUE, !.isRunning = TRUE], 0)
  /\ UNCHANGED notHost

\* the handler's 'message' listener: handleMessage(message)
Receive ==
  /\ host.started /\ host.isRunning
  /\ Len(host.requests) < MaxRequests
  /\ \E method \in RequestMethods :
       LET r == Len(host.requests) + 1
           next == handleMessage(Accept(host, JStr(NumberText(r)), method), r)
       IN Within(next) /\ host' = next
  /\ UNCHANGED notHost

\* ready() resolves first
ConnectReady ==
  /\ \E a \in 1..Len(host.attempts) :
       LET client == host.attempts[a].client
           next == Resume(ConnectResolved(
                            Settling([host EXCEPT
                                        !.clients[client].state = "ready"], a),
                            a),
                          a)
       IN /\ host.attempts[a].pc = "race"
          /\ host.clients[client].state = "connecting"
          /\ ~host.clients[client].closed
          /\ Within(next) /\ host' = next
  /\ UNCHANGED notHost

\* ready() rejects first
ConnectReject ==
  /\ \E a \in 1..Len(host.attempts), message \in ConnectErrors :
       LET client == host.attempts[a].client
           next == Resume(ConnectCatch(
                            Settling([host EXCEPT
                                        !.clients[client].state = "failed"], a),
                            a, message),
                          a)
       IN /\ host.attempts[a].pc = "race"
          /\ host.clients[client].state = "connecting"
          /\ Within(next) /\ host' = next
  /\ UNCHANGED notHost

\* the connection timer fires first
ConnectTimeout ==
  /\ \E a \in 1..Len(host.attempts) :
       LET next == Resume(ConnectCatch(Settling(host, a), a,
                                       ErrConnectionTimedOut), a)
       IN /\ host.attempts[a].pc = "race"
          /\ Within(next) /\ host' = next
  /\ UNCHANGED notHost

\* the raced call resolves first
CallResolve ==
  /\ \E r \in 1..Len(host.requests) :
       /\ host.requests[r].pc = "call"
       /\ \E result \in CallResults : host' = SendResult(host, r, result)
  /\ UNCHANGED notHost

\* the raced call rejects first
CallReject ==
  /\ \E r \in 1..Len(host.requests), message \in CallErrors :
       LET next == CallFailed(host, r, message)
       IN /\ host.requests[r].pc = "call"
          /\ Within(next) /\ host' = next
  /\ UNCHANGED notHost

\* the call timer fires first
CallTimeout ==
  /\ \E r \in 1..Len(host.requests) :
       /\ host.requests[r].pc = "call"
       /\ host' = CallFailed(host, r, ErrCallTimedOut)
  /\ UNCHANGED notHost

\* a client the host listens to emits 'close': after close() was called on
\* it, or because the desktop app ended an open connection
ClientClose ==
  /\ \E c \in 1..Len(host.clients) :
       /\ host.clients[c].listeners > 0 /\ ~host.clients[c].closeEmitted
       /\ host.clients[c].closed \/ host.clients[c].state = "ready"
       /\ host' = Closed(OnClientClose([host EXCEPT
                                           !.clients[c].closed = TRUE,
                                           !.clients[c].closeEmitted = TRUE]),
                          c, host)
  /\ UNCHANGED notHost

\* the handler's 'disconnect' and 'error' listeners: this.stop()
Stop ==
  /\ host.started /\ host.isRunning
  /\ host' = HostStop(host)
  /\ UNCHANGED notHost

HostNext ==
  \/ Start \/ Receive \/ ConnectReady \/ ConnectReject \/ ConnectTimeout
  \/ CallResolve \/ CallReject \/ CallTimeout \/ ClientClose \/ Stop

InitHost == HostInit /\ EnvIdle /\ ScanIdle /\ FramingIdle

SpecHost == InitHost /\ [][HostNext]_vars

\* C10: every connectToIPC that ended in failure handling returned (it did
\* not throw) leaving the status not-running when the error message contains
\* ENOENT and integration-disabled otherwise, leaving the host without a
\* channel handle, and close() was called on the handle the host held.
C10_ConnectFailure ==
  \A a \in 1..Len(host.attempts) :
    LET t == host.attempts[a]
    IN /\ t.pc \in {"race", "returned"}
       /\ t.outcome = "failed" =>
            /\ t.pc = "returned"
            /\ t.statusAtReturn =
                 IF Includes(t.error, "ENOENT") THEN "not-running"
                 ELSE "integration-disabled"
            /\ t.handleAtReturn = 0
            /\ t.handleAtCatch # 0 =>
                 /\ host.clients[t.handleAtCatch].closeCalls >= 1
                 /\ host.clients[t.handleAtCatch].closed

\* C10 witness: the first attempt was rejected with an ENOENT error and left
\* not-running, a later one timed out and left integration-disabled; each
\* closed its own client.
C10_Witness ==
  /\ Len(host.attempts) >= 2
  /\ host.attempts[1].outcome = "failed"
  /\ Includes(host.attempts[1].error, "ENOENT")
  /\ host.attempts[1].statusAtReturn = "not-running"
  /\ host.attempts[1].handleAtCatch = host.attempts[1].client
  /\ host.attempts[2].outcome = "failed"
  /\ host.attempts[2].error = ErrConnectionTimedOut
  /\ host.attempts[2].statusAtReturn = "integration-disabled"
  /\ host.attempts[2].handleAtCatch = host.attempts[2].client
  /\ host.clients[2].closeCalls = 1
  /\ host.ipcClient = 0

\* the attempts the connection timer ended
TimedOut(a) ==
  /\ host.attempts[a].outcome = "failed"
  /\ host.attempts[a].error = ErrConnectionTimedOut

\* C11 as stated: when the connect timer fires first the attempt is
\* abandoned and the status becomes not-running.
C11_Original ==
  \A a \in 1..Len(host.attempts) :
    TimedOut(a) =>
      /\ host.attempts[a].pc = "returned"
      /\ host.attempts[a].handleAtReturn = 0
      /\ host.attempts[a].statusAtReturn = DESKTOP_APP_STATUS.NOT_RUNNING

\* C11: when the connect timer fires first, connectToIPC returns having
\* called close() on the client the host held, leaving the host without a
\* client and the status integration-disabled ('Connection timed out' does
\* not contain ENOENT).
C11_TimeoutDisabled ==
  \A a \in 1..Len(host.attempts) :
    TimedOut(a) =>
      LET t == host.attempts[a]
      IN /\ t.pc = "returned"
         /\ t.handleAtReturn = 0
         /\ t.statusAtReturn = DESKTOP_APP_STATUS.INTEGRATION_DISABLED
         /\ t.handleAtCatch # 0 =>
              host.clients[t.handleAtCatch].closeCalls >= 1

\* C11 witness: the timer ended the only attempt, made by start(), while
\* its client was still connecting; the client was closed and dropped.
C11_Witness ==
  /\ Len(host.attempts) = 1 /\ TimedOut(1)
  /\ host.attempts[1].handleAtCatch = 1
  /\ host.clients[1].state = "connecting" /\ host.clients[1].closed
  /\ host.desktopAppStatus = DESKTOP_APP_STATUS.INTEGRATION_DISABLED
  /\ host.ipcClient = 0

\* C12: when another connectToIPC had started by the time an earlier one
\* settled, the earlier one returned leaving the status and the client of
\* the host as they were.
C12_StaleNoOverwrite ==
  \A a \in 1..Len(host.attempts) :
    LET t == host.attempts[a]
    IN (t.pc = "returned" /\ t.latest > a) =>
         /\ t.statusAtReturn = t.statusBefore
         /\ t.handleAtReturn = t.handleBefore

\* C13: for one request, 'RPC destroyed' leads to a reconnect and a retry at
\* most once: a second 'RPC destroyed' is answered, without another
\* reconnect and without another retry.
C13_SingleRetry ==
  \A r \in 1..Len(host.requests) :
    host.requests[r].destroyed <= 1 /\ host.requests[r].retries <= 1

\* the responses the activation r sent
ResponsesTo(r) == {i \in 1..Len(host.sent) : host.sent[i].request = r}

\* C15: a checkAvailability request is answered once its connect attempt,
\* if it made one, has settled; its only response has success true and
\* `available` true exactly when the status it reports is 'connected'.
C15_Availability ==
  \A r \in 1..Len(host.requests) :
    host.requests[r].method = "checkAvailability" =>
      /\ host.requests[r].pc \in {"availability", "done"}
      /\ host.requests[r].pc = "availability" =>
           \E a \in 1..Len(host.attempts) :
             host.attempts[a].caller = r /\ host.attempts[a].pc = "race"
      /\ Cardinality(ResponsesTo(r)) =
           IF host.requests[r].pc = "done" THEN 1 ELSE 0
      /\ \A i \in ResponsesTo(r) :
           /\ host.sent[i].success /\ host.sent[i].kind = "availability"
           /\ host.sent[i].id = host.requests[r].id
           /\ host.sent[i].available <=>
                host.sent[i].status = DESKTOP_APP_STATUS.CONNECTED

\* C15 witness: an availability request that arrived while the host was
\* not connected was answered after its own connect attempt timed out, with
\* success true and available false.
C15_Witness ==
  /\ Len(host.requests) = 1 /\ Len(host.sent) = 1
  /\ host.requests[1].method = "checkAvailability"
  /\ host.requests[1].statusAtReceive # DESKTOP_APP_STATUS.CONNECTED
  /\ \E a \in 1..Len(host.attempts) :
       host.attempts[a].caller = 1 /\ TimedOut(a)
  /\ host.sent[1].success /\ ~host.sent[1].available
  /\ host.sent[1].status = DESKTOP_APP_STATUS.INTEGRATION_DISABLED

\* the requests whose command is neither checkAvailability nor in the catalog
UnknownCommand(r) ==
  /\ host.requests[r].method # "checkAvailability"
  /\ host.requests[r].method \notin COMMAND_NAMES

AttemptsOf(r) == {a \in 1..Len(host.attempts) : host.attempts[a].caller = r}

\* C17: a request other than checkAvailability that arrives while the
\* status is not 'connected' makes one connect attempt; when the status is
\* not 'connected' after it, the request made no other attempt, no method
\* of the client was called, and its only response is a failure whose
\* errorCode is that status and whose error is the table's message for it.
C17_NotConnected ==
  \A r \in 1..Len(host.requests) :
    LET q == host.requests[r]
    IN (q.method # "checkAvailability"
          /\ q.statusAtReceive # DESKTOP_APP_STATUS.CONNECTED) =>
         /\ Cardinality(AttemptsOf(r)) >= 1
         /\ q.pc = "connect" =>
              Cardinality(AttemptsOf(r)) = 1 /\ ResponsesTo(r) = {}
         /\ q.statusAfterConnect \notin {"", DESKTOP_APP_STATUS.CONNECTED} =>
              /\ q.pc = "done" /\ q.callClient = 0
              /\ Cardinality(AttemptsOf(r)) = 1
              /\ Cardinality(ResponsesTo(r)) = 1
              /\ \A i \in ResponsesTo(r) :
                   /\ ~host.sent[i].success
                   /\ host.sent[i].kind = "status-error"
                   /\ host.sent[i].errorCode = q.statusAfterConnect
                   /\ host.sent[i].error = STATUS_MESSAGES(q.statusAfterConnect)
                   /\ host.sent[i].error # ""

\* C17 witness: 'vaultsList' arrived after the first attempt had timed out;
\* its own attempt was rejected with ENOENT and it was answered with
\* errorCode 'not-running' and the message of that status.
C17_Witness ==
  /\ Len(host.requests) = 1 /\ host.requests[1].method = "vaultsList"
  /\ host.requests[1].statusAtReceive = DESKTOP_APP_STATUS.INTEGRATION_DISABLED
  /\ host.requests[1].statusAfterConnect = DESKTOP_APP_STATUS.NOT_RUNNING
  /\ Len(host.sent) = 1
  /\ host.sent[1].errorCode = "not-running"
  /\ host.sent[1].error = "PearPass desktop app is not running"
  /\ Len(host.attempts) = 2 /\ host.attempts[2].caller = 1

\* C20: every response handed to send either has success true and no error
\* property, or has success false and an error property that is a string;
\* errorCode is a property of failures only.
C20_ResponseShape ==
  \A i \in 1..Len(host.sent) :
    LET v == ResponseValue(host.sent[i])
        success == GetProperty(v, TxtSuccess)
    IN /\ success \in {JBool(TRUE), JBool(FALSE)}
       /\ success = JBool(TRUE) => ~HasProperty(v, TxtError)
       /\ success = JBool(FALSE) => GetProperty(v, TxtError).t = "string"
       /\ HasProperty(v, TxtErrorCode) => success = JBool(FALSE)

\* C20 witness: a failure without errorCode was sent: the remote call was
\* rejected with 'Vault not found'.
C20_Witness ==
  /\ Len(host.sent) = 1
  /\ LET v == ResponseValue(host.sent[1])
     IN /\ GetProperty(v, TxtSuccess) = JBool(FALSE)
        /\ GetProperty(v, TxtError) = JStr(TextOf("Vault not found"))
        /\ ~HasProperty(v, TxtErrorCode) /\ ~HasProperty(v, TxtResult)

\* the raced call of the activation r lost against the call timer
CallTimedOut(r) == Includes(host.requests[r].callError, "timed out")

\* C23: when the raced call of a request lost against the call timer, the
\* catch around the call left the status not-running and the host without
\* a client, the request has its one response, a failure whose error is the
\* timeout message, and it made no reconnect and no retry afterwards.
C23_CallTimeout ==
  \A r \in 1..Len(host.requests) :
    CallTimedOut(r) =>
      LET q == host.requests[r]
      IN /\ q.statusAtThrow = DESKTOP_APP_STATUS.NOT_RUNNING
         /\ q.handleAtThrow = 0
         /\ q.pc = "done"
         /\ \A a \in AttemptsOf(r) : host.attempts[a].pc = "returned"
         /\ Cardinality(ResponsesTo(r)) = 1
         /\ \A i \in ResponsesTo(r) :
              /\ ~host.sent[i].success /\ host.sent[i].kind = "error"
              /\ host.sent[i].id = q.id
              /\ host.sent[i].error = ErrCallTimedOut

\* C23 witness: 'vaultsList' was called on the open client of a connected
\* host and the call timer fired: the host dropped the client without
\* closing it and answered with the timeout message.
C23_Witness ==
  /\ Len(host.requests) = 1 /\ CallTimedOut(1)
  /\ host.requests[1].method = "vaultsList"
  /\ host.requests[1].statusAtReceive = DESKTOP_APP_STATUS.CONNECTED
  /\ host.requests[1].retries = 0
  /\ host.clients[host.requests[1].callClient].state = "ready"
  /\ host.clients[host.requests[1].callClient].closeCalls = 0
  /\ host.ipcClient = 0
  /\ host.desktopAppStatus = DESKTOP_APP_STATUS.NOT_RUNNING
  /\ Len(host.sent) = 1
  /\ host.sent[1].error = "IPC call timed out after 5 seconds"

\* C24: the status is connected only after a connectToIPC whose own client
\* completed its open; such an activation left the status connected, the
\* host holding that client, and a 'close' listener on it; and once an open
\* client has emitted 'close', its listener left the status not-running
\* and the host without a client.
C24_ConnectedByOpen ==
  /\ host.desktopAppStatus = DESKTOP_APP_STATUS.CONNECTED =>
       \E a \in 1..Len(host.attempts) : host.attempts[a].outcome = "connected"
  /\ \A a \in 1..Len(host.attempts) :
       LET t == host.attempts[a]
       IN t.outcome = "connected" =>
            /\ host.clients[t.client].state = "ready"
            /\ t.statusAtReturn = DESKTOP_APP_STATUS.CONNECTED
            /\ t.handleAtReturn = t.client
            /\ host.clients[t.client].listeners >= 1
  /\ \A c \in 1..Len(host.clients) :
       (host.clients[c].state = "ready" /\ host.clients[c].closeEmitted) =>
         /\ host.clients[c].statusAfterClose = DESKTOP_APP_STATUS.NOT_RUNNING
         /\ host.clients[c].handleAfterClose = 0

(***************************************************************************)
(* The bridge: the host behind its handler.  stdin delivers whole chunks   *)
(* to handleIncomingChunk; emit calls the host's listener inside the       *)
(* strategy call, and the listener runs up to its first await before emit  *)
(* returns.  The host's handler is the one its constructor builds, so it   *)
(* parses with the tolerant strategy.                                      *)
\* C29: a 'close' event of a client that is not the host's current client
\* (dropped after a call timeout or an 'RPC destroyed' failure, or closed by
\* reconnectIPC) leaves the status and the current client as they were; the
\* 'close' of the current client demotes the status to not-running.  Closes
\* that arrive after stop() are left aside.
C29_StaleCloseIgnored ==
  \A c \in 1..Len(host.clients) :
    LET k == host.clients[c]
    IN (k.closeEmitted /\ k.runningAtClose) =>
         IF k.handleAtClose = c
           THEN k.statusAfterClose = DESKTOP_APP_STATUS.NOT_RUNNING
           ELSE /\ k.statusAfterClose = k.statusAtClose
                /\ k.handleAfterClose = k.handleAtClose

\* C30: whenever the status is connected the host holds a client, and that
\* client's own open has completed; no method is called on a client that is
\* still connecting, and no dispatch reaches the call with no client.
C30_ConnectedHandleReady ==
  /\ host.desktopAppStatus = DESKTOP_APP_STATUS.CONNECTED =>
       /\ host.ipcClient # 0
       /\ host.clients[host.ipcClient].state = "ready"
  /\ \A r \in 1..Len(host.requests) :
       /\ host.requests[r].callClient # 0 =>
            host.requests[r].callState = "ready"
       /\ \A i \in ResponsesTo(r) : host.sent[i].error # ErrNullMethod

(***************************************************************************)
(* A request that carries params: the host with every outcome of the       *)
(* backend, its one message drawn with one of the params objects below.    *)
(***************************************************************************)
PadText == JStr(Text("xx"))
ParamValues ==
  {JUndefined,
   JObj(<<>>),
   JObj(<<Prop(TxtPadding, PadText)>>),
   JObj(<<Prop(KeyA, JNum(1))>>),
   JObj(<<Prop(KeyA, JNum(1)), Prop(TxtPadding, PadText)>>),
   JObj(<<Prop(TxtPadding, JNum(0)), Prop(KeyB, JObj(<<>>))>>),
   JObj(<<Prop(KeyA, JObj(<<Prop(TxtPadding, PadText)>>))>>)}

\* the handler's 'message' listener: handleMessage({id, method, params}),
\* for the first message of a behaviour
ReceiveParams ==
  /\ host.started /\ host.isRunning
  /\ host.requests = <<>>
  /\ \E method \in RequestMethods, params \in ParamValues :
       LET r == Len(host.requests) + 1
           next == handleMessage(
                     AcceptParams(host, JStr(NumberText(r)), method, params),
                     r)
       IN Within(next) /\ host' = next
  /\ UNCHANGED notHost

ParamsNext ==
  \/ Start \/ ReceiveParams \/ ConnectReady \/ ConnectReject
  \/ ConnectTimeout \/ CallResolve \/ CallReject \/ CallTimeout
  \/ ClientClose \/ Stop

SpecParams == InitHost /\ [][ParamsNext]_vars

\* the keys of params other than padding, in their order
KeptKeys(params) ==
  SelectSeq(ObjectKeys(params), LAMBDA key : key # TxtPadding)

\* C27: the argument of every call of a client method is the message's
\* params without the padding property, every other property with its value
\* and in its place, and the empty object when the message has no params;
\* the params object of the message is what it was when the message arrived.
C27_PaddingStripped ==
  \A r \in 1..Len(host.requests) :
    LET q == host.requests[r]
    IN /\ q.params = q.received
       /\ q.callClient # 0 =>
            /\ q.callParams.t = "object"
            /\ ~HasProperty(q.callParams, TxtPadding)
            /\ ObjectKeys(q.callParams) = KeptKeys(q.received)
            /\ \A i \in 1..Len(q.callParams.kv) :
                 q.callParams.kv[i].v =
                   GetProperty(q.received, q.callParams.kv[i].k)
            /\ q.received = JUndefined => q.callParams = JObj(<<>>)

\* a call was made with the one business property of a params object that
\* also held padding, after a retry of the message
C27_Witness ==
  \E r \in 1..Len(host.requests) :
    LET q == host.requests[r]
    IN /\ q.callClient # 0
       /\ q.retries >= 1
       /\ HasProperty(q.received, TxtPadding)
       /\ q.callParams = JObj(<<Prop(KeyA, JNum(1))>>)

(***************************************************************************)
(* The host without its history, for what holds of endless behaviours: a   *)
(* client that is not the current one, that no connectToIPC awaits and that *)
(* can emit no 'close' the host listens to is left out, as is every         *)
(* connectToIPC that returned, and the records of past steps are cleared.   *)
(* What remains is what the code's next steps depend on.                    *)
(***************************************************************************)
LiveClient(h, c) ==
  \/ c = h.ipcClient
  \/ \E a \in 1..Len(h.attempts) :
       h.attempts[a].pc = "race" /\ h.attempts[a].client = c
  \/ /\ h.clients[c].listeners > 0 /\ ~h.clients[c].closeEmitted
     /\ h.clients[c].closed \/ h.clients[c].state = "ready"

RECURSIVE Indices(_)
Indices(n) == IF n = 0 THEN <<>> ELSE Append(Indices(n - 1), n)

\* the clients kept, and the place a client has among them (0: left out)
KeptClients(h) ==
  SelectSeq(Indices(Len(h.clients)), LAMBDA c : LiveClient(h, c))
Place(kept, c) ==
  IF \E i \in 1..Len(kept) : kept[i] = c
    THEN CHOOSE i \in 1..Len(kept) : kept[i] = c
    ELSE 0

Compacted(h, kept, racing) ==
     [h EXCEPT
        !.ipcClient = Place(kept, h.ipcClient),
        !.clients =
          [i \in 1..Len(kept) |->
             [NewClient EXCEPT !.state = h.clients[kept[i]].state,
                               !.closed = h.clients[kept[i]].closed,
                               !.listeners = h.clients[kept[i]].listeners]],
        !.attempts =
          [i \in 1..Len(racing) |->
             NewAttempt(Place(kept, racing[i].client), racing[i].caller)],
        !.requests =
          [r \in 1..Len(h.requests) |->
             [NewRequest(h.requests[r].id, h.requests[r].method) EXCEPT
                !.pc = h.requests[r].pc,
                !.error = h.requests[r].error,
                !.params = h.requests[r].params,
                !.received = h.requests[r].received,
                !.cleanParams = h.requests[r].cleanParams]]]

Compact(host0) ==
  Once(host0,
       LAMBDA h :
         Once(KeptClients(h),
              LAMBDA kept :
                Compacted(h, kept,
                          SelectSeq(h.attempts, LAMBDA t : t.pc = "race"))))

\* the step leaves at most MaxClients clients that count
Fits(next) == Len(next.clients) <= MaxClients

LiveStart ==
  /\ ~host.started
  /\ host' = Compact(ConnectBegin([host EXCEPT !.started = TRUE,
                                               !.isRunning = TRUE], 0))
  /\ UNCHANGED notHost

LiveReceive ==
  /\ host.started /\ host.isRunning
  /\ Len(host.requests) < MaxRequests
  /\ \E method \in RequestMethods :
       LET r == Len(host.requests) + 1
       IN \E next \in {Compact(handleMessage(
                          Accept(host, JStr(NumberText(r)), method), r))} :
            Fits(next) /\ host' = next
  /\ UNCHANGED notHost

\* the callers of connectToIPC: start() (0) and the activations
Callers == 0..MaxRequests

LiveConnectReady(caller) ==
  /\ \E a \in 1..Len(host.attempts) :
       LET client == host.attempts[a].client
       IN /\ host.attempts[a].caller = caller
          /\ host.attempts[a].pc = "race"
          /\ host.clients[client].state = "connecting"
          /\ ~host.clients[client].closed
          /\ \E next \in {Compact(Resume(ConnectResolved(
                              Settling([host EXCEPT
                                          !.clients[client].state = "ready"],
                                       a),
                              a), a))} :
               Fits(next) /\ host' = next
  /\ UNCHANGED notHost

LiveConnectReject(caller) ==
  /\ \E a \in 1..Len(host.attempts), message \in ConnectErrors :
       LET client == host.attempts[a].client
       IN /\ host.attempts[a].caller = caller
          /\ host.attempts[a].pc = "race"
          /\ host.clients[client].state = "connecting"
          /\ \E next \in {Compact(Resume(ConnectCatch(
                              Settling([host EXCEPT
                                          !.clients[client].state = "failed"],
                                       a),
                              a, message), a))} :
               Fits(next) /\ host' = next
  /\ UNCHANGED notHost

LiveConnectTimeout(caller) ==
  /\ \E a \in 1..Len(host.attempts) :
       /\ host.attempts[a].caller = caller
       /\ host.attempts[a].pc = "race"
       /\ \E next \in {Compact(Resume(ConnectCatch(Settling(host, a), a,
                                                    ErrConnectionTimedOut),
                                       a))} :
            Fits(next) /\ host' = next
  /\ UNCHANGED notHost

LiveCallResolve(r) ==
  /\ r \in 1..Len(host.requests)
  /\ /\ host.requests[r].pc = "call"
       /\ \E result \in CallResults :
            host' = Compact(SendResult(host, r, result))
  /\ UNCHANGED notHost

LiveCallReject(r) ==
  /\ r \in 1..Len(host.requests)
  /\ \E message \in CallErrors :
       /\ host.requests[r].pc = "call"
       /\ \E next \in {Compact(CallFailed(host, r, message))} :
            Fits(next) /\ host' = next
  /\ UNCHANGED notHost

LiveCallTimeout(r) ==
  /\ r \in 1..Len(host.requests)
  /\ /\ host.requests[r].pc = "call"
       /\ host' = Compact(CallFailed(host, r, ErrCallTimedOut))
  /\ UNCHANGED notHost

LiveClientClose ==
  /\ \E c \in 1..Len(host.clients) :
       /\ host.clients[c].listeners > 0 /\ ~host.clients[c].closeEmitted
       /\ host.clients[c].closed \/ host.clients[c].state = "ready"
       /\ host' = Compact(OnClientClose([host EXCEPT
                                            !.clients[c].closed = TRUE,
                                            !.clients[c].closeEmitted = TRUE]))
  /\ UNCHANGED notHost

LiveStop ==
  /\ host.started /\ host.isRunning
  /\ host' = Compact(HostStop(host))
  /\ UNCHANGED notHost

\* the race of the connectToIPC that caller awaits settles; the race of
\* the call of the activation r settles
ConnectSettles(caller) ==
  \/ LiveConnectReady(caller) \/ LiveConnectReject(caller)
  \/ LiveConnectTimeout(caller)
CallSettles(r) ==
  LiveCallResolve(r) \/ LiveCallReject(r) \/ LiveCallTimeout(r)

LiveNext ==
  \/ LiveStart \/ LiveReceive
  \/ \E caller \in Callers : ConnectSettles(caller)
  \/ \E r \in 1..MaxRequests : CallSettles(r)
  \/ LiveClientClose \/ LiveStop

\* every await of the host is a Promise.race with a timer that setTimeout
\* always fires: each pending race is settled sooner or later
SpecLive ==
  /\ InitHost /\ [][LiveNext]_vars
  /\ \A caller \in Callers : WF_vars(ConnectSettles(caller))
  /\ \A r \in 1..MaxRequests : WF_vars(CallSettles(r))

\* C28: every request handed to handleMessage is answered sooner or later,
\* and by exactly one response: never none for ever, never two.
C28_OneResponse ==
  /\ [](\A r \in 1..Len(host.requests) : Cardinality(ResponsesTo(r)) <= 1)
  /\ \A r \in 1..MaxRequests :
       (Len(host.requests) >= r) ~> (Cardinality(ResponsesTo(r)) = 1)

(***************************************************************************)
TxtMethod == TextOf("method")
TxtCommand == TextOf("command")

\* const methodName = method || command, as a name
MethodNameOf(message) ==
  LET method == GetProperty(message, TxtMethod)
      command == GetProperty(message, TxtCommand)
      methodName == IF Truthy(method) THEN method ELSE command
  IN IF methodName.t = "string"
          /\ \E name \in RequestMethods : Text(name) = methodName.s
       THEN CHOOSE name \in RequestMethods : Text(name) = methodName.s
       ELSE "undefined"

\* the listeners start() registered on the handler: 'message' calls
\* handleMessage, 'error' calls stop()
Dispatch(h, event) ==
  IF event.type = "message"
    THEN Once(Accept(h, GetProperty(event.payload, TxtId),
                     MethodNameOf(event.payload)), LAMBDA entered :
           handleMessage(entered, Len(entered.requests)))
    ELSE IF h.isRunning THEN HostStop(h) ELSE h

RECURSIVE DispatchAll(_, _)
DispatchAll(h, events) ==
  IF events = <<>> THEN h
  ELSE Once(Dispatch(h, Head(events)), LAMBDA after :
         DispatchAll(after, Tail(events)))

RECURSIVE BridgeDrain(_, _)
\* while (this.processNextMessage()) {} with the listeners attached; when a
\* listener stopped the host, handler.stop() emptied the buffer, and what
\* the strategy call removes afterwards leaves it empty
BridgeDrain(hd, hs) ==
  Once(processNextMessage(hd), LAMBDA r :
    Once(DispatchAll(hs, SubSeq(r.h.events, Len(hd.events) + 1,
                                Len(r.h.events))), LAMBDA after :
      Once(IF hs.isRunning /\ ~after.isRunning THEN stop(r.h) ELSE r.h,
           LAMBDA left :
        IF r.ret THEN BridgeDrain(left, after)
        ELSE [handler |-> left, host |-> after])))

\* the stdin 'data' listener of a started host
BridgeChunk(hd, hs, chunk) ==
  BridgeDrain([hd EXCEPT !.inputBuffer = @ \o chunk, !.calls = <<>>], hs)

\* the requests and the damaged envelope the extension sends
IdAccent == JStr(<<CH.EACUTE>>)
BridgeRequest(id, key, name) ==
  JObj(<<Prop(TxtId, id), Prop(key, JStr(Text(name)))>>)
BridgeValues ==
  {BridgeRequest(IdAccent, TxtCommand, "vaultsList"),
   wrapMessage(BridgeRequest(JStr(<<CH.a>>), TxtMethod, "checkAvailability")),
   SetProperty(wrapMessage(BridgeRequest(JStr(<<CH.e>>), TxtCommand,
                                         "vaultsList")),
               TxtLength, JNum(1))}

\* the frames of a stream, and the stream cut into one chunk per frame or
\* into a single chunk
BridgeStreams ==
  UNION {[1..n -> {Frame(v) : v \in BridgeValues}] : n \in 0..MaxBridgeFrames}
PerFrame(fs) == [k \in 1..Len(fs) |-> FrameBytes(fs[k])]
Whole(fs) == IF fs = <<>> THEN <<>> ELSE <<WireOf(fs)>>

BridgeInit ==
  /\ handler = NewHandler /\ wire = <<>> /\ host = NewHost
  /\ twin = NewHandler
  /\ frames \in BridgeStreams
  /\ bulk \in {PerFrame(frames), Whole(frames)}

\* process.stdin 'data' at a started, running host
DeliverToHost ==
  /\ host.started /\ host.isRunning /\ bulk # <<>>
  /\ \E next \in {BridgeChunk(handler, host, Head(bulk))} :
       /\ Within(next.host)
       /\ handler' = next.handler
       /\ host' = next.host
  /\ bulk' = Tail(bulk)
  /\ UNCHANGED <<wire, frames, twin, envVars, scanVars>>

BridgeNext ==
  \/ Start \/ DeliverToHost \/ ConnectReady \/ ConnectReject
  \/ ConnectTimeout \/ CallResolve \/ CallReject \/ CallTimeout
  \/ ClientClose

InitBridge == BridgeInit /\ EnvIdle /\ ScanIdle

SpecBridge == InitBridge /\ [][BridgeNext]_vars

\* C14: handleMessage starts for a message only when every earlier
\* activation of handleMessage has sent its response.
C14_OneInFlight ==
  \A r \in 1..Len(host.requests) : host.requests[r].inFlightAtReceive = 0

\* the handler emitted an 'error' event
ErrorSeen == \E k \in 1..Len(handler.events) : handler.events[k].type = "error"
\* the frames whose payload stands for a message
IsRequestFrame(f) == IsObjectMessage(f.value)
RequestFrames == {k \in 1..Len(frames) : IsRequestFrame(frames[k])}

\* C18: after an 'error' event of the handler the started host is still
\* running, and once stdin has delivered everything, handleMessage has been
\* called for every request frame, those after the damaged one included.
C18_ErrorsNonFatal ==
  (host.started /\ ErrorSeen) =>
    /\ host.isRunning
    /\ bulk = <<>> => Len(host.requests) = Cardinality(RequestFrames)

\* the payload of the message event the activation r was called with
RequestMessage(r) ==
  SelectSeq(handler.events, LAMBDA e : e.type = "message")[r].payload

\* send(response) wrote a frame: its header is the number of bytes that
\* follow, these bytes are the JSON text of an envelope whose length is the
\* number of bytes of the response's own JSON text and whose message is the
\* response; id is the id the frame carries
WrittenFrame(resp) ==
  Once(ResponseValue(resp), LAMBDA response :
    Once(send(response), LAMBDA written :
      Once(JSONParse(Utf8Decode(SliceFrom(written, HEADER_SIZE))),
           LAMBDA envelope :
        [framed |->
           /\ Len(written) >= HEADER_SIZE
           /\ ReadUInt32LE(written) = Len(written) - HEADER_SIZE
           /\ envelope.ok /\ isWrappedMessage(envelope.v)
           /\ GetProperty(envelope.v, TxtLength) =
                JNum(ByteLength(Stringify(response)))
           /\ JSONParse(Stringify(response)).v =
                GetProperty(envelope.v, TxtMessage),
         id |-> IF envelope.ok
                  THEN GetProperty(GetProperty(envelope.v, TxtMessage), TxtId)
                  ELSE JUndefined])))

\* the responses the send sites of handleMessage build for the requests of
\* BridgeValues, and the frame written for each, computed once
BridgeIds ==
  {GetProperty(IF isWrappedMessage(v) THEN GetProperty(v, TxtMessage) ELSE v,
               TxtId) : v \in BridgeValues}
StatusValues == {DESKTOP_APP_STATUS[k] : k \in DOMAIN DESKTOP_APP_STATUS}
BridgeResponses ==
  UNION {
    {[Response(id, TRUE, "availability") EXCEPT
        !.available = (status = DESKTOP_APP_STATUS.CONNECTED),
        !.status = status, !.message = StatusMessageOrUnknown(status)]
       : status \in StatusValues}
    \cup {[Response(id, FALSE, "status-error") EXCEPT
             !.error = StatusMessageOrUnknown(status), !.errorCode = status]
            : status \in StatusValues}
    \cup {[Response(id, FALSE, "error") EXCEPT !.error = message]
            : message \in ResponseStrings}
    \cup {[Response(id, TRUE, "result") EXCEPT !.result = result]
            : result \in CallResults}
    : id \in BridgeIds}
WrittenTable == [resp \in BridgeResponses |-> WrittenFrame(resp)]
Written(resp) ==
  Once([resp EXCEPT !.request = 0], LAMBDA built :
    IF built \in BridgeResponses THEN WrittenTable[built]
    ELSE WrittenFrame(built))

FramedEcho(resp) ==
  Once(Written(resp), LAMBDA frame :
    /\ frame.framed
    /\ frame.id = GetProperty(RequestMessage(resp.request), TxtId))

\* C19: every response is written as a frame with a little-endian header
\* equal to the byte length of the serialized envelope, the envelope's
\* length is the byte length of the serialized response, and the response
\* carries the id of the request it answers.
C19_EnvelopeEcho ==
  \A i \in 1..Len(host.sent) : FramedEcho(host.sent[i])

\* C19 witness: the request with the id "é" was answered after its remote
\* call resolved; the id takes two bytes in the frame written.
C19_Witness ==
  /\ Len(host.sent) >= 1 /\ host.sent[1].kind = "result"
  /\ host.sent[1].id = IdAccent
  /\ host.sent[1].result = JArr(<<>>)
  /\ GetProperty(RequestMessage(host.sent[1].request), TxtId) = IdAccent
  /\ ByteLength(Stringify(ResponseValue(host.sent[1])))
       = Len(Stringify(ResponseValue(host.sent[1]))) + 1

(***************************************************************************)
(* Streams of complete frames whose payloads are any bytes: stdin delivers *)
(* them to handleIncomingChunk in chunks of any size.  A frame here is its *)
(* header and its payload bytes.                                           *)
(***************************************************************************)
\* a complete frame: the header holds the payload's length
RawFrame(payload) == [header |-> WriteUInt32LE(Len(payload)), payload |-> payload]
RawBytes(f) == f.header \o f.payload

RECURSIVE StreamWire(_)
StreamWire(fs) ==
  IF fs = <<>> THEN <<>> ELSE RawBytes(Head(fs)) \o StreamWire(Tail(fs))

\* payloads that are the JSON text of an object
ObjA == JObj(<<Prop(KeyA, JNum(1))>>)
ObjB == JObj(<<Prop(KeyB, JObj(<<>>))>>)
ObjectPayloads ==
  {Utf8Encode(Stringify(v)) : v \in {ObjA, ObjB}}
\* payloads that are not JSON: {"a": and {a} and nul
Unclosed == <<CH.LBRACE, CH.QUOTE, CH.a, CH.QUOTE, CH.COLON>>
Balanced == <<CH.LBRACE, CH.a, CH.RBRACE>>
Braceless == <<CH.n, CH.u, 108>>
\* a byte that is not UTF-8, then the JSON text of an object
Garbled == <<255>> \o Utf8Encode(Stringify(ObjA))
DamagedPayloads == {Unclosed, Balanced, Braceless, Garbled}

StreamPayloads == ObjectPayloads \cup DamagedPayloads
Streams ==
  UNION {[1..n -> {RawFrame(pl) : pl \in StreamPayloads}] : n \in 1..MaxStreamFrames}

StreamInit ==
  /\ bulk = <<>> /\ twin = NewHandler
  /\ \E robust \in BOOLEAN :
       handler = [NewHandler EXCEPT !.useRobustParsing = robust]
  /\ frames \in Streams
  /\ wire = StreamWire(frames)

InitStream == StreamInit /\ EnvIdle /\ ScanIdle /\ HostIdle

SpecStream == InitStream /\ [][Deliver]_vars

\* the bytes stdin has delivered so far
Delivered ==
  Once(StreamWire(frames), LAMBDA all : SubSeq(all, 1, Len(all) - Len(wire)))
\* the number of bytes of the first n frames
RECURSIVE BytesOfFrames(_)
BytesOfFrames(n) ==
  IF n = 0 THEN 0 ELSE BytesOfFrames(n - 1) + Len(RawBytes(frames[n]))
\* the frames that have arrived whole
Arrived == {n \in 1..Len(frames) : BytesOfFrames(n) <= Len(Delivered)}
\* the payload is JSON text
IsJson(payload) == JSONParse(Utf8Decode(payload)).ok

\* the message a JSON payload stands for
PayloadMessage(payload) == MessageOf(JSONParse(Utf8Decode(payload)).v)
\* every byte of the stream is UTF-8 text
CleanStream == \A n \in 1..Len(frames) : frames[n].payload # Garbled

\* C21: when handleIncomingChunk has returned, the message of every frame
\* that has arrived whole and whose payload is JSON has been emitted, and in
\* the strict strategy every frame that has arrived whole is out of the
\* buffer (streams of UTF-8 text).
C21_Drained ==
  CleanStream =>
    \A n \in Arrived :
      /\ ~handler.useRobustParsing =>
           Len(handler.inputBuffer) <= Len(Delivered) - BytesOfFrames(n)
      /\ IsJson(frames[n].payload) =>
           \E k \in 1..Len(handler.events) :
             handler.events[k] = MessageEvent(PayloadMessage(frames[n].payload))

\* the declared length of an envelope is the byte length of its message's
\* JSON text
LengthMatches(value) ==
  GetProperty(value, TxtLength) =
    JNum(ByteLength(Stringify(GetProperty(value, TxtMessage))))
\* the one event post-parse handling owes for a parsed value
PostParseEvent(value) ==
  IF isWrappedMessage(value)
    THEN IF LengthMatches(value)
           THEN MessageEvent(GetProperty(value, TxtMessage))
           ELSE ErrorEvent(ErrUnwrap)
    ELSE MessageEvent(value)

\* C22: once a single frame has been parsed, by the strict strategy from a
\* frame with a correct header or by the tolerant strategy from an object,
\* exactly one event has fired: the inner payload as a message when the value
\* is an envelope whose length matches, the unwrap error when it is an
\* envelope whose length does not match, the value itself as a message
\* otherwise.
C22_PostParse ==
  ((StrictSingleFrame /\ wire = <<>>) \/ TolerantSingleObject) =>
    handler.events = <<PostParseEvent(frames[1].value)>>

\* the event a strict frame leads to: its message, or the parse error
StrictEvent(payload) ==
  IF IsJson(payload) THEN MessageEvent(PayloadMessage(payload))
  ELSE ErrorEvent(ErrInvalidJson)

\* C25: in the strict strategy every frame taken from the buffer fired
\* exactly one event, the error 'Invalid JSON message' and no message when
\* its payload is not JSON; the buffer holds exactly the delivered bytes
\* that follow the frames taken, so the bytes of a frame that failed to
\* parse are gone and are not read again.
C25_ParseFailureDropped ==
  ~handler.useRobustParsing =>
    LET taken == Len(handler.events)
    IN /\ taken <= Cardinality(Arrived)
       /\ \A k \in 1..taken : handler.events[k] = StrictEvent(frames[k].payload)
       /\ handler.inputBuffer =
            SubSeq(Delivered, BytesOfFrames(taken) + 1, Len(Delivered))

\* C25 witness: the frame {a} and then the frame {"a":1} arrived at a strict
\* handler; the first fired the parse error, the second its message, and the
\* buffer is empty.
C25_Witness ==
  /\ ~handler.useRobustParsing /\ wire = <<>>
  /\ frames = <<RawFrame(Balanced), RawFrame(Utf8Encode(Stringify(ObjA)))>>
  /\ handler.events = <<ErrorEvent(ErrInvalidJson), MessageEvent(ObjA)>>
  /\ handler.inputBuffer = <<>>

\* the buffer the i-th strategy call of the last chunk started with: the
\* buffer is always the end of what was delivered
BufferBefore(i) ==
  Once(Delivered, LAMBDA all :
    SubSeq(all, Len(all) - handler.calls[i].before + 1, Len(all)))
\* the number of bytes of buf that make up its first n characters, when the
\* n-th is a single byte
BytesOfChars(buf, n) ==
  CHOOSE k \in 0..Len(buf) :
    /\ Len(Utf8Decode(SubSeq(buf, 1, k))) = n
    /\ \A j \in 0..(k - 1) : Len(Utf8Decode(SubSeq(buf, 1, j))) < n
\* the 4 header bytes and the bytes up to and including the closing brace of
\* the span the scan finds in buf
ExactSpan(buf) ==
  Once(SliceFrom(buf, 4), LAMBDA rest :
    4 + BytesOfChars(rest, RobustSearch(Utf8Decode(rest), 0).endIndex))

\* C26: a call of processNextMessageRobust that emits removes exactly the 4
\* header bytes and the bytes up to and including the closing brace of the
\* span it emitted; a call that emits nothing leaves the buffer as it was,
\* or empties a buffer of more than 10,000 bytes.
C26_ExactConsumption ==
  \A i \in 1..Len(handler.calls) :
    LET c == handler.calls[i]
    IN c.robust =>
         IF c.ret
           THEN /\ c.emitted = 1
                /\ c.before - c.after = ExactSpan(BufferBefore(i))
           ELSE /\ c.emitted = 0
                /\ \/ c.after = c.before
                   \/ c.before > ROBUST_BUFFER_LIMIT /\ c.after = 0


(***************************************************************************)
(* A handler in use: stdin delivers either a stream of frames in chunks of *)
(* any size, or the start of a frame followed by one large chunk that      *)
(* holds no message; stop() is called and the owner sets useRobustParsing  *)
(* at any moment.                                                          *)
(***************************************************************************)
\* the payloads of the session's frames: the text of an object, and nul
SessionPayloads == {Utf8Encode(Stringify(ObjA)), Braceless}
SessionStreams ==
  UNION {[1..n -> {RawFrame(pl) : pl \in SessionPayloads}] :
           n \in 1..MaxStreamFrames}
\* a header and the first byte of its payload, then more than 10,000 bytes;
\* none is a brace
FrameStart == <<5, 0, 0, 0, CH.n>>
LargeChunk == Filler(ROBUST_BUFFER_LIMIT)

SessionInit ==
  /\ twin = NewHandler
  /\ \E robust \in BOOLEAN :
       handler = [NewHandler EXCEPT !.useRobustParsing = robust]
  /\ \/ frames \in SessionStreams /\ wire = StreamWire(frames) /\ bulk = <<>>
     \/ frames = <<>> /\ wire = <<>> /\ bulk = <<FrameStart, LargeChunk>>

\* handler.stop()
HandlerStop ==
  /\ handler' = stop(handler)
  /\ UNCHANGED <<wire, bulk, frames, twin, notFraming>>

\* handler.useRobustParsing = !handler.useRobustParsing
SwitchStrategy ==
  /\ handler' = [handler EXCEPT !.useRobustParsing = ~@]
  /\ UNCHANGED <<wire, bulk, frames, twin, notFraming>>

SessionNext == Deliver \/ DeliverChunk \/ HandlerStop \/ SwitchStrategy

InitSession == SessionInit /\ EnvIdle /\ ScanIdle /\ HostIdle

SpecSession == InitSession /\ [][SessionNext]_vars

\* C31: whenever messageInProgress is true the buffer holds at least the 4
\* header bytes, expectedMessageLength is the little-endian number they
\* hold, and it is at most 1,048,576.
C31_FramingConsistent ==
  handler.messageInProgress =>
    /\ Len(handler.inputBuffer) >= HEADER_SIZE
    /\ handler.expectedMessageLength = ReadUInt32LE(handler.inputBuffer)
    /\ handler.expectedMessageLength <= MESSAGE_SIZE_LIMIT

\* C33: within the drain loop of a chunk, every strategy call that returned
\* true left the buffer at least one byte shorter than it found it, every
\* call but the last returned true and the last one returned false.
C33_DrainTerminates ==
  \A k \in 1..Len(handler.calls) :
    /\ handler.calls[k].ret => handler.calls[k].after < handler.calls[k].before
    /\ handler.calls[k].ret <=> k < Len(handler.calls)

\* a chunk drained by three calls of the tolerant strategy: two that
\* returned true and removed a frame each, one that returned false
C33_Witness ==
  /\ Len(handler.calls) = 3
  /\ \A k \in 1..2 : /\ handler.calls[k].ret /\ handler.calls[k].robust
                      /\ handler.calls[k].after < handler.calls[k].before
  /\ ~handler.calls[3].ret
  /\ Len(handler.events) = 2

(***************************************************************************)
(* Both strategies on one stream: handler runs the strict strategy, twin   *)
(* the tolerant one, and stdin's chunks reach both.  Every frame is a      *)
(* correct header and the JSON text of one object.                         *)
(***************************************************************************)
\* texts JSON.stringify writes: a plain object, a string holding a closing
\* brace and a two-byte character, an envelope, an envelope of 0
CompactTexts ==
  {Utf8Encode(Stringify(v)) :
     v \in {ObjA, JObj(<<Prop(KeyA, JStr(<<CH.RBRACE, CH.EACUTE>>))>>),
            wrapMessage(ObjA), wrapMessage(JNum(0))}}
\* JSON text of an object with white space before it, after it
SpacedTexts ==
  {<<CH.SPACE>> \o Utf8Encode(Stringify(ObjA)),
   Utf8Encode(Stringify(ObjA)) \o <<CH.LF>>}
ObjectTexts == CompactTexts \cup SpacedTexts
WellFormedStreams ==
  UNION {[1..n -> {RawFrame(pl) : pl \in ObjectTexts}] :
           n \in 1..MaxStreamFrames}

TwinInit ==
  /\ bulk = <<>>
  /\ handler = [NewHandler EXCEPT !.useRobustParsing = FALSE]
  /\ twin = [NewHandler EXCEPT !.useRobustParsing = TRUE]
  /\ frames \in WellFormedStreams
  /\ wire = StreamWire(frames)

\* process.stdin 'data': the next k bytes arrive as one chunk, at both
DeliverBoth ==
  /\ wire # <<>>
  /\ \E k \in 1..Len(wire) :
       /\ handler' = handleIncomingChunk(handler, SubSeq(wire, 1, k))
       /\ twin' = handleIncomingChunk(twin, SubSeq(wire, 1, k))
       /\ wire' = SubSeq(wire, k + 1, Len(wire))
  /\ UNCHANGED <<bulk, frames, notFraming>>

InitTwin == TwinInit /\ EnvIdle /\ ScanIdle /\ HostIdle

SpecTwin == InitTwin /\ [][DeliverBoth]_vars

\* the payload ends with its object's closing brace
EndsWithObject(payload) == payload[Len(payload)] = CH.RBRACE

ShortStrs == UNION {[1..k -> StrAlphabet] : k \in 0..(MaxStrLen - 1)}
RoundTripMessages ==
  {JObj(<<Prop(KeyA, x)>>) : x \in SmallAtoms \cup {JBool(TRUE)}}
    \cup {JObj(<<Prop(KeyA, JStr(str))>>) : str \in ShortStrs}
    \cup {JObj(<<Prop(KeyE, JStr(<<CH.EACUTE>>))>>),
          JObj(<<Prop(KeyA, JObj(<<Prop(KeyB, JArr(<<JNull>>))>>))>>),
          JObj(<<Prop(KeyA, JNum(7)), Prop(KeyB, JStr(<<CH.RBRACE>>))>>)}
    \cup {wrapMessage(x) : x \in {JNum(0), JNull, JObj(<<>>), ObjA}}
\* an object whose JSON text is longer than MESSAGE_SIZE_LIMIT bytes
LargeObject ==
  JObj(<<Prop(KeyA, JStr(Filler(MESSAGE_SIZE_LIMIT) \o <<>>))>>)
\* what is kept of the message handed to send: the message itself, or that
\* it was LargeObject
Sent(message) == [large |-> FALSE, value |-> message]
SentLarge == [large |-> TRUE, value |-> JNull]
SentMessage(f) == IF f.large THEN LargeObject ELSE f.value

RoundTripInit ==
  /\ handler = [NewHandler EXCEPT !.useRobustParsing = FALSE]
  /\ bulk = <<>>
  /\ \/ /\ twin = [NewHandler EXCEPT !.useRobustParsing = TRUE]
        /\ \E m \in RoundTripMessages :
             frames = <<Sent(m)>> /\ wire = send(m)
     \/ /\ twin = NewHandler /\ wire = <<>>
        /\ frames = <<SentLarge>>

\* process.stdin 'data': the bytes written for LargeObject arrive as one
\* chunk at the strict handler
DeliverLarge ==
  /\ frames[1].large /\ handler.calls = <<>>
  /\ handler' = handleIncomingChunk(handler, send(LargeObject))
  /\ UNCHANGED <<wire, bulk, frames, twin, notFraming>>

\* every byte written by send has been delivered
AllArrived == wire = <<>> /\ (frames[1].large => handler.calls # <<>>)

RoundTripNext == DeliverBoth \/ DeliverLarge
InitRoundTrip == RoundTripInit /\ EnvIdle /\ ScanIdle /\ HostIdle

SpecRoundTrip == InitRoundTrip /\ [][RoundTripNext]_vars

\* once every byte send(m) wrote has arrived, each strategy that received
\* them has emitted one message event carrying m and nothing else, and its
\* buffer is empty
C34_Original ==
  AllArrived =>
    /\ handler.events = <<MessageEvent(SentMessage(frames[1]))>>
    /\ handler.inputBuffer = <<>>
    /\ ~frames[1].large =>
         /\ twin.events = <<MessageEvent(SentMessage(frames[1]))>>
         /\ twin.inputBuffer = <<>>

\* C34: for every non-empty object m whose envelope is not longer than
\* MESSAGE_SIZE_LIMIT bytes, while bytes of send(m) are outstanding neither
\* strategy has emitted anything, and once all of them arrived, in whatever
\* chunks, each strategy has emitted exactly one message event carrying m,
\* no error event, and holds an empty buffer.
C34_RoundTrip ==
  ~frames[1].large =>
    /\ handler.events =
         IF AllArrived THEN <<MessageEvent(SentMessage(frames[1]))>> ELSE <<>>
    /\ twin.events = handler.events
    /\ AllArrived => handler.inputBuffer = <<>> /\ twin.inputBuffer = <<>>

\* an object with a two-byte key and a two-byte string came back from both
\* strategies, the header having been read in an earlier chunk than the
\* one that completed the frame
C34_Witness ==
  /\ AllArrived
  /\ frames[1].value = JObj(<<Prop(KeyE, JStr(<<CH.EACUTE>>))>>)
  /\ handler.calls[1].ret /\ handler.calls[1].declared = -1
  /\ handler.events = <<MessageEvent(frames[1].value)>>
  /\ twin.events = <<MessageEvent(frames[1].value)>>
  /\ handler.inputBuffer = <<>> /\ twin.inputBuffer = <<>>
====
